---- MODULE Spec2Model ----
(***************************************************************************)
(* Model of the request dispatch engine of llm_executor:                   *)
(*   - the LangGraph orchestration flow (llm_service/orchestration.py),    *)
(*   - the security validator and the complexity classifier (executor/),   *)
(*   - the retry wrapper around the sandbox executor (error_handlers.py),  *)
(*   - the Event Hub consumer (executor_service/event_hub_consumer.py).    *)
(*   - the Kubernetes job manager and the job monitor (executor_service/), *)
(*   - the sandbox executor, the job history and the executor API,         *)
(*   - the query request model of the LLM service (llm_service/api.py).    *)
(* Each subsystem has its own specification over its own variables; the    *)
(* variables of the other subsystems stay at their initial values.         *)
(***************************************************************************)
EXTENDS Integers, Sequences, FiniteSets, TLC

VARIABLES
    llm_client,       \* LLMOrchestrationFlow.llm_client: "mock" (None) or "real"
    state,            \* GraphState of the running flow
    node,             \* next graph node to run, "idle" / "END" / "raised"
    trace,            \* nodes run so far by the current execute call
    rw_max_retries,   \* RetryWrapper.error_handler.max_retries
    rw_pc,            \* execute_with_retry: "idle", "loop" or "done"
    attempt,          \* execute_with_retry: local attempt
    error_history,    \* execute_with_retry: local error_history
    rw_result,        \* the ExecutionResult execute_with_retry returned
    calls,            \* what executor.execute did at each call of this run
    sleeps,           \* the arguments of time.sleep in this run
    job_manager,      \* EventHubConsumer.job_manager: "present" or "None"
    events,           \* the bodies of the events of the partition, by sequence number
    next_seq,         \* sequence number of the event the client delivers next
    checkpoint,       \* sequence number stored by the last update_checkpoint, 0 if none
    restarts,         \* how often the receiver was restarted
    ev_pc,            \* position of _on_event in the event being handled
    cur,              \* _on_event: the event being handled and what was done for it
    request_id_ctx,   \* logging_util: the correlation id of the logging context
    last_handling,    \* for each sequence number, how its latest handling ended
    ack_log,          \* <<sequence number, dispatch result>> of each stored checkpoint
    km_pc,            \* KubernetesJobManager.create_job: "idle", "created" or "raised"
    km_request_id,    \* request.request_id given to create_job, a sequence of characters
    km_job_id,        \* the job_id create_job derived, a sequence of characters
    km_delete_calls,  \* the delete_namespaced_job calls of KubernetesJobManager
    km_delete_result, \* what the last delete_job returned
    km_submitted,     \* the V1Job body create_job gave to create_namespaced_job
    km_request,       \* the JobCreationRequest given to create_job
    km_ttl_seconds,   \* KubernetesJobManager.ttl_seconds
    max_job_retries,  \* JobErrorHandler.max_job_retries
    mon_pc,           \* monitor_job: "idle", "watching" or "returned"
    mon_job_id,       \* monitor_job: job_id
    mon_timeout,      \* monitor_job: timeout
    mon_elapsed,      \* time.time() - start_time, in seconds
    watch_event,      \* the job object of the last event the watch stream delivered
    monitor_result,   \* the dictionary monitor_job returned
    jh_delete_calls,  \* the delete_namespaced_job calls of JobErrorHandler
    cleanup_result,   \* what the last cleanup_job returned
    se_pc,            \* SecureExecutor.execute: "idle", "run", "finally" or "done"
    se_count,         \* number of execute calls started so far
    se_timeout,       \* execute: timeout_seconds
    temp_dir,         \* execute: temp_dir, 0 for None, else the directory made by this call
    disk,             \* the temporary directories that exist
    se_run,           \* what the try block of execute produced: a return or a raise
    se_response,      \* what the caller of execute got
    rmtree_calls,     \* the shutil.rmtree calls: directory and whether the call raised
    job_history,      \* the rows of table job_history, in insertion order
    db_clock,         \* datetime.now of the database writes, as a counter
    save_count,       \* number of direct save_execution calls so far
    saved_record,     \* what the last save_execution returned, or that it raised
    active_executions, \* executor_service/api.py active_executions, its keys
    api_pc,           \* position of the running request handler
    api_count,        \* number of requests received so far
    api_request,      \* the request being handled
    api_result,       \* execute_snippet: what executor.execute did
    api_response,     \* the HTTP response of the last request
    open_sessions,    \* the database sessions obtained and not closed
    sessions_made,    \* number of sessions db_manager.get_session returned
    persist_outcome,  \* execute_snippet: how saving to the history went
    cv_allowlist,     \* CodeValidator: allowlist of its ImportValidationRule
    an_source,        \* the source last given to validate or classify
    an_verdict,       \* is_valid of the last validate call, or that it raised
    an_complexity     \* what the last classify call returned, or that it raised

flowVars == <<llm_client, state, node, trace>>

retryVars == <<rw_max_retries, rw_pc, attempt, error_history, rw_result,
               calls, sleeps>>

consVars == <<job_manager, events, next_seq, checkpoint, restarts, ev_pc,
              cur, request_id_ctx, last_handling, ack_log>>

jobVars == <<km_pc, km_request_id, km_job_id, km_delete_calls,
             km_delete_result, km_submitted, km_request, km_ttl_seconds>>

monVars == <<max_job_retries, mon_pc, mon_job_id, mon_timeout, mon_elapsed,
             watch_event, monitor_result, jh_delete_calls, cleanup_result>>

sandboxVars == <<se_pc, se_count, se_timeout, temp_dir, disk, se_run,
                 se_response, rmtree_calls>>

dbVars == <<job_history, db_clock, save_count, saved_record>>

apiVars == <<active_executions, api_pc, api_count, api_request, api_result,
             api_response, open_sessions, sessions_made, persist_outcome>>

analysisVars == <<cv_allowlist, an_source, an_verdict, an_complexity>>

vars == <<llm_client, state, node, trace, rw_max_retries, rw_pc, attempt,
          error_history, rw_result, calls, sleeps, job_manager, events,
          next_seq, checkpoint, restarts, ev_pc, cur, request_id_ctx,
          last_handling, ack_log, km_pc, km_request_id, km_job_id,
          km_delete_calls, km_delete_result, km_submitted, km_request,
          km_ttl_seconds,
          max_job_retries, mon_pc,
          mon_job_id, mon_timeout, mon_elapsed, watch_event, monitor_result,
          jh_delete_calls, cleanup_result, se_pc, se_count, se_timeout,
          temp_dir, disk, se_run, se_response, rmtree_calls, job_history,
          db_clock, save_count, saved_record, active_executions, api_pc,
          api_count, api_request, api_result, api_response, open_sessions,
          sessions_made, persist_outcome, cv_allowlist, an_source,
          an_verdict, an_complexity>>

notFlowVars == <<retryVars, consVars, jobVars, monVars, sandboxVars,
    dbVars, apiVars, analysisVars>>

notRetryVars == <<flowVars, consVars, jobVars, monVars, sandboxVars,
    dbVars, apiVars, analysisVars>>

notConsVars == <<flowVars, retryVars, jobVars, monVars, sandboxVars,
    dbVars, apiVars, analysisVars>>

notJobVars == <<flowVars, retryVars, consVars, monVars, sandboxVars,
    dbVars, apiVars, analysisVars>>

notMonVars == <<flowVars, retryVars, consVars, jobVars, sandboxVars,
    dbVars, apiVars, analysisVars>>

notDbVars == <<flowVars, retryVars, consVars, jobVars, monVars, sandboxVars,
               apiVars, analysisVars>>

notApiDbVars == <<flowVars, retryVars, consVars, jobVars, monVars,
                  sandboxVars, analysisVars>>

notAnalysisVars == <<flowVars, retryVars, consVars, jobVars, monVars,
                     sandboxVars, dbVars, apiVars>>

notSandboxVars == <<flowVars, retryVars, consVars, jobVars, monVars,
    dbVars, apiVars, analysisVars>>

\* ------------------------------------------------------------------------
\* Bounds
\* ------------------------------------------------------------------------
MaxRetriesBound == 3
RwMaxRetriesBound == 7
MaxEvents == 2
MaxFill == 51
MaxDeleteCalls == 2
MaxTimeout == 2
MaxJobRetriesBound == 3
MaxFailedPods == 3
MaxExecutions == 3
MaxSaves == 3
MaxRequests == 3
MaxRestarts == 1

\* ------------------------------------------------------------------------
\* Programs: a program is the text the LLM returns; AST gives the features
\* of its syntax tree that the validator and the classifier look at.
\*   parses      ast.parse succeeds
\*   imports     base module names of Import / ImportFrom nodes
\*   name_calls  ids of Call nodes whose func is a Name
\*   attr_calls  <<value id, attr>> of Call nodes whose func is an Attribute
\*   loop_depth  maximum nesting depth of For / While nodes
\* ------------------------------------------------------------------------
NoTree == [parses |-> FALSE, imports |-> {}, name_calls |-> {},
           attr_calls |-> {}, loop_depth |-> 0]

Tree(imports, name_calls, attr_calls, loop_depth) ==
    [parses |-> TRUE, imports |-> imports, name_calls |-> name_calls,
     attr_calls |-> attr_calls, loop_depth |-> loop_depth]

MOCK_GENERATED == "result = 1 + 1"
MOCK_CORRECTED == "result = sum(range(10))"

Programs ==
    { "",
      MOCK_GENERATED,
      MOCK_CORRECTED,
      "import math; result = math.pi",
      "import os; os.system('ls')",
      "import pandas; result = pandas.__version__",
      "result = open('f').read()",
      "for i in a:; for j in b:; for k in c: pass",
      "def f(:" }

\* A source on which ast.parse raises something other than SyntaxError
\* (RecursionError on a very long operator chain).
CRASHING_SOURCE == "result = 1 + 1 + 1 + ... (100000 terms)"

AST(code) ==
    CASE code = "" -> Tree({}, {}, {}, 0)
      [] code = MOCK_GENERATED -> Tree({}, {}, {}, 0)
      [] code = MOCK_CORRECTED -> Tree({}, {"sum", "range"}, {}, 0)
      [] code = "import math; result = math.pi" -> Tree({"math"}, {}, {}, 0)
      [] code = "import os; os.system('ls')" ->
            Tree({"os"}, {}, {<<"os", "system">>}, 0)
      [] code = "import pandas; result = pandas.__version__" ->
            Tree({"pandas"}, {}, {}, 0)
      [] code = "result = open('f').read()" ->
            Tree({}, {"open"}, {<<"", "read">>}, 0)
      [] code = "for i in a:; for j in b:; for k in c: pass" ->
            Tree({}, {}, {}, 3)
      [] code = "from math import *; result = pi" -> Tree({"math"}, {}, {}, 0)
      [] code = "from os import *; result = getcwd()" ->
            Tree({"os"}, {"getcwd"}, {}, 0)
      [] code = "import pickle; result = pickle.dumps(1)" ->
            Tree({"pickle"}, {}, {<<"pickle", "dumps">>}, 0)
      [] code = "from os.path import join; result = join('a', 'b')" ->
            Tree({"os"}, {"join"}, {}, 0)
      [] OTHER -> NoTree

\* ------------------------------------------------------------------------
\* executor/validator.py
\* ------------------------------------------------------------------------
FILE_OPERATIONS == {"open", "read", "write", "file"}
OS_OPERATIONS == {"system", "popen", "exec", "eval", "compile", "__import__"}
OS_MODULES == {"os", "subprocess", "commands"}
NETWORK_OPERATIONS ==
    {"socket", "urlopen", "request", "get", "post", "put", "delete", "patch"}
NETWORK_MODULES ==
    {"socket", "urllib", "urllib2", "urllib3", "requests", "http", "httplib",
     "httplib2", "aiohttp"}
DEFAULT_ALLOWLIST ==
    {"math", "random", "datetime", "json", "re", "collections", "itertools",
     "functools", "operator", "string", "decimal", "fractions", "statistics",
     "typing", "dataclasses", "enum", "copy", "pprint", "textwrap",
     "unicodedata", "hashlib", "hmac", "secrets", "uuid", "time", "calendar",
     "zoneinfo"}
PROHIBITED_MODULES ==
    {"os", "sys", "subprocess", "socket", "urllib", "urllib2", "urllib3",
     "requests", "http", "httplib", "httplib2", "aiohttp", "io", "pathlib",
     "shutil", "tempfile", "glob", "pickle", "shelve", "dbm", "sqlite3",
     "ctypes", "multiprocessing", "threading", "asyncio", "concurrent",
     "__builtin__", "builtins", "importlib"}

\* Each rule yields the set of its error sources; is_valid is "no errors".
NoFileIORule(tree) ==
    {c \in tree.name_calls : c \in FILE_OPERATIONS}
        \cup {c[2] : c \in {a \in tree.attr_calls : a[2] \in FILE_OPERATIONS}}

NoOSCommandsRule(tree) ==
    {c \in tree.name_calls : c \in OS_OPERATIONS}
        \cup {c[2] : c \in {a \in tree.attr_calls : a[2] \in OS_OPERATIONS}}
        \cup {c[1] : c \in {a \in tree.attr_calls : a[1] \in OS_MODULES}}

NoNetworkRule(tree) ==
    {c \in tree.name_calls : c \in NETWORK_OPERATIONS}
        \cup {c[2] : c \in {a \in tree.attr_calls : a[2] \in NETWORK_OPERATIONS}}
        \cup {c[1] : c \in {a \in tree.attr_calls : a[1] \in NETWORK_MODULES}}

ImportValidationRule_allowlist_first(tree, allowlist) ==
    {m \in tree.imports : m \notin allowlist}

ImportValidationRule(tree, allowlist) ==
    {m \in tree.imports : m \in PROHIBITED_MODULES \/ m \notin allowlist}

\* ImportValidationRule.__init__: the allowlist the rule uses when the
\* validator was constructed without (given = FALSE) or with an override.
ImportValidationRule__init__(given, allowlist) ==
    IF given THEN allowlist ELSE DEFAULT_ALLOWLIST

\* CodeValidator.validate of a validator whose import rule uses allowlist:
\* "valid" / "invalid" stands for is_valid.
CodeValidator_validate(code, allowlist) ==
    LET tree == AST(code) IN
    IF ~tree.parses THEN "invalid"
    ELSE IF NoFileIORule(tree) \cup NoOSCommandsRule(tree)
              \cup NoNetworkRule(tree)
              \cup ImportValidationRule(tree, allowlist) = {}
         THEN "valid" ELSE "invalid"

\* CodeValidator().validate, the validator the orchestration flow builds.
validate(code) ==
    CodeValidator_validate(code, ImportValidationRule__init__(FALSE, {}))

\* ------------------------------------------------------------------------
\* executor/classifier.py
\* ------------------------------------------------------------------------
HEAVY_IMPORTS == {"pandas", "modin", "polars", "pyarrow", "dask", "ray", "pyspark"}
FILE_MODULES == {"io", "pathlib"}

_has_heavy_imports(tree) == tree.imports \cap HEAVY_IMPORTS # {}

_has_file_io(tree) ==
    \/ tree.name_calls \cap FILE_OPERATIONS # {}
    \/ \E a \in tree.attr_calls : a[2] \in FILE_OPERATIONS
    \/ tree.imports \cap FILE_MODULES # {}

_has_complex_loops(tree) == tree.loop_depth >= 3

classify(code) ==
    LET tree == AST(code) IN
    IF ~tree.parses THEN "lightweight"
    ELSE IF _has_heavy_imports(tree) THEN "heavy"
    ELSE IF _has_file_io(tree) THEN "heavy"
    ELSE IF _has_complex_loops(tree) THEN "heavy"
    ELSE "lightweight"

\* ------------------------------------------------------------------------
\* llm_service/orchestration.py
\* ------------------------------------------------------------------------
IdleState ==
    [query |-> "", generated_code |-> "", validation_result |-> "None",
     validation_attempts |-> 0, max_retries |-> 0,
     classification |-> "None", status |-> "idle"]

\* What llm_client.generate may do: return some program, or raise.
LLMReplies == Programs \cup {"<raise>"}

should_retry_validation_off_by_one(s) ==
    IF s.validation_attempts > s.max_retries
    THEN "max_retries_exceeded" ELSE "correction"

should_retry_validation(s) ==
    IF s.validation_attempts >= s.max_retries
    THEN "max_retries_exceeded" ELSE "correction"

check_validation_result_any_verdict(s) ==
    IF s.validation_result # "None" THEN "valid" ELSE "invalid"

check_validation_result(s) ==
    IF s.validation_result # "None" /\ s.validation_result = "valid"
    THEN "valid" ELSE "invalid"

_build_graph_route_on_exhaustion(n, s) ==
    CASE n = "input_parser" -> "code_generation"
      [] n = "code_generation" -> "code_validator"
      [] n = "code_validator" ->
            IF check_validation_result(s) = "valid"
            THEN "execution_router" ELSE "check_retry_limit"
      [] n = "check_retry_limit" ->
            IF should_retry_validation(s) = "correction"
            THEN "correction" ELSE "execution_router"
      [] n = "correction" -> "code_validator"
      [] n = "execution_router" -> "END"

\* The edges of _build_graph: the node that runs after n in state s.
_build_graph(n, s) ==
    CASE n = "input_parser" -> "code_generation"
      [] n = "code_generation" -> "code_validator"
      [] n = "code_validator" ->
            IF check_validation_result(s) = "valid"
            THEN "execution_router" ELSE "check_retry_limit"
      [] n = "check_retry_limit" ->
            IF should_retry_validation(s) = "correction"
            THEN "correction" ELSE "END"
      [] n = "correction" -> "code_validator"
      [] n = "execution_router" -> "END"

FlowIdle ==
    /\ state = IdleState
    /\ node = "idle"
    /\ trace = <<>>

Running == node \notin {"idle", "END", "raised"}

\* One graph step: run the node's update, then follow its edge.
Advance(n, s) ==
    /\ state' = s
    /\ node' = _build_graph(n, s)
    /\ trace' = Append(trace, n)
    /\ UNCHANGED <<llm_client, notFlowVars>>

\* LLMOrchestrationFlow.execute: build initial_state and enter the graph.
execute(query, max_retries) ==
    /\ ~Running
    /\ state' = [query |-> query,
                 generated_code |-> "", validation_result |-> "None",
                 validation_attempts |-> 0, max_retries |-> max_retries,
                 classification |-> "None", status |-> "initialized"]
    /\ node' = "input_parser"
    /\ trace' = <<>>
    /\ UNCHANGED <<llm_client, notFlowVars>>

InputParserNode ==
    /\ node = "input_parser"
    /\ Advance(node, [state EXCEPT !.status = "parsed"])

\* The exception of a node leaves graph.invoke; execute returns no state.
Raise ==
    /\ node' = "raised"
    /\ trace' = Append(trace, node)
    /\ UNCHANGED <<state, llm_client, notFlowVars>>

CodeGenerationNode(reply) ==
    /\ node = "code_generation"
    /\ IF llm_client = "mock"
       THEN /\ reply = MOCK_GENERATED
            /\ Advance(node, [state EXCEPT !.generated_code = MOCK_GENERATED,
                                           !.status = "generated"])
       ELSE IF reply = "<raise>"
            THEN Raise
            ELSE Advance(node, [state EXCEPT !.generated_code = reply,
                                             !.status = "generated"])

CodeValidatorNode ==
    /\ node = "code_validator"
    /\ LET validation_result == validate(state.generated_code) IN
       Advance(node, [state EXCEPT
                        !.validation_result = validation_result,
                        !.status = IF validation_result = "valid"
                                   THEN "validated" ELSE "validation_failed"])

check_retry_limit ==
    /\ node = "check_retry_limit"
    /\ Advance(node, state)

CorrectionNode_counts_twice(reply) ==
    /\ node = "correction"
    /\ LET new_attempts == state.validation_attempts + 2 IN
       IF llm_client = "mock"
       THEN /\ reply = MOCK_CORRECTED
            /\ Advance(node, [state EXCEPT !.generated_code = MOCK_CORRECTED,
                                           !.validation_attempts = new_attempts,
                                           !.status = "corrected"])
       ELSE IF reply = "<raise>"
            THEN Raise
            ELSE Advance(node, [state EXCEPT !.generated_code = reply,
                                             !.validation_attempts = new_attempts,
                                             !.status = "corrected"])

CorrectionNode(reply) ==
    /\ node = "correction"
    /\ LET new_attempts == state.validation_attempts + 1 IN
       IF llm_client = "mock"
       THEN /\ reply = MOCK_CORRECTED
            /\ Advance(node, [state EXCEPT !.generated_code = MOCK_CORRECTED,
                                           !.validation_attempts = new_attempts,
                                           !.status = "corrected"])
       ELSE IF reply = "<raise>"
            THEN Raise
            ELSE Advance(node, [state EXCEPT !.generated_code = reply,
                                             !.validation_attempts = new_attempts,
                                             !.status = "corrected"])

ExecutionRouterNode ==
    /\ node = "execution_router"
    /\ Advance(node, [state EXCEPT
                        !.classification = classify(state.generated_code),
                        !.status = "routed"])

\* llm_service/api.py QueryRequest: the model FastAPI builds from the body
\* of POST /api/v1/query. Its fields carry no constraint, so every string
\* and every int is accepted and handed to process_query.
QueryRequest(query, max_retries) ==
    [query |-> query, max_retries |-> max_retries]

Queries == {"", "sum the numbers from 1 to 10"}

\* llm_service/api.py process_query: the status the endpoint reports for
\* the final state of the flow.
process_query(final_state) ==
    IF /\ final_state.validation_result # "None"
       /\ final_state.validation_result # "valid"
       /\ final_state.validation_attempts >= final_state.max_retries
    THEN "validation_failed_max_retries"
    ELSE final_state.status

\* llm_service/api.py process_query, as the caller sees it: the QueryResponse
\* built from the final state, or the HTTPException of the except clause
\* when execute raised.
HTTPException(status_code) ==
    [status_code |-> status_code, generated_code |-> "<absent>",
     status |-> "<absent>", classification |-> "<absent>"]

QueryResponse(final_state) ==
    [status_code |-> 200, generated_code |-> final_state.generated_code,
     status |-> process_query(final_state),
     classification |-> final_state.classification]

process_query_response_keeps_code(n, s) ==
    IF n = "raised"
    THEN [status_code |-> 200, generated_code |-> s.generated_code,
          status |-> process_query(s), classification |-> s.classification]
    ELSE QueryResponse(s)

process_query_response(n, s) ==
    IF n = "raised" THEN HTTPException(500) ELSE QueryResponse(s)

FlowStep ==
    \/ InputParserNode
    \/ \E reply \in LLMReplies : CodeGenerationNode(reply)
    \/ CodeValidatorNode
    \/ check_retry_limit
    \/ \E reply \in LLMReplies : CorrectionNode(reply)
    \/ ExecutionRouterNode

\* ------------------------------------------------------------------------
\* shared/models.py ExecutionResult and what the wrapped executor may do
\* ------------------------------------------------------------------------
REQUEST_ID == "req-1"

ExecutionResult(stdout, stderr, exit_code, duration_ms, status) ==
    [request_id |-> REQUEST_ID, stdout |-> stdout, stderr |-> stderr,
     exit_code |-> exit_code, duration_ms |-> duration_ms, status |-> status]

NoResult == ExecutionResult("", <<>>, 0, 0, "none")

\* What the child process of subprocess.run may do: exit with a return
\* code (negative when killed by a signal) or outlive the timeout.
Child(kind, returncode, stdout, stderr, duration_ms) ==
    [kind |-> kind, returncode |-> returncode, stdout |-> stdout,
     stderr |-> stderr, duration_ms |-> duration_ms]

Children ==
    { Child("exited", 0, "out", <<>>, 12),
      Child("exited", 1, "out", <<"Traceback">>, 12),
      Child("exited", -9, "", <<"Killed">>, 12),
      Child("TimeoutExpired", 0, "out", <<>>, 30000) }

RunOutcome_nonnegative_is_success(child) ==
    IF child.kind = "TimeoutExpired"
    THEN ExecutionResult(child.stdout,
                         child.stderr \o <<"Execution timed out">>,
                         -1, child.duration_ms, "timeout")
    ELSE ExecutionResult(child.stdout, child.stderr, child.returncode,
                         child.duration_ms,
                         IF child.returncode >= 0 THEN "success"
                         ELSE "failed")

\* SecureExecutor.execute, the ExecutionResult built from the child:
\* success for return code 0, failed for any other return code, and
\* timeout with exit code -1 for TimeoutExpired.
RunOutcome(child) ==
    IF child.kind = "TimeoutExpired"
    THEN ExecutionResult(child.stdout,
                         child.stderr \o <<"Execution timed out">>,
                         -1, child.duration_ms, "timeout")
    ELSE ExecutionResult(child.stdout, child.stderr, child.returncode,
                         child.duration_ms,
                         IF child.returncode = 0 THEN "success"
                         ELSE "failed")

ExecutorOutcomes == {RunOutcome(child) : child \in Children}

\* shared/exceptions.py: the exceptions an executor call may raise.
\* is_execution_error is isinstance(error, ExecutionError); retryable is the
\* flag such an error carries.
Exc(type, is_execution_error, retryable) ==
    [type |-> type, is_execution_error |-> is_execution_error,
     retryable |-> retryable]

Exceptions ==
    { Exc("ResourceExhaustedError", TRUE, TRUE),
      Exc("RuntimeError", FALSE, FALSE),
      Exc("TimeoutError", TRUE, FALSE),
      Exc("MemoryError", TRUE, FALSE),
      Exc("NetworkError", TRUE, FALSE),
      Exc("ExecutionError", TRUE, TRUE),
      Exc("ExecutionError", TRUE, FALSE),
      Exc("RecursionError", FALSE, FALSE),
      Exc("OSError", FALSE, FALSE) }

ExecutorResponses ==
    {[kind |-> "return", outcome |-> o, error |-> Exc("", FALSE, FALSE)] :
        o \in ExecutorOutcomes}
    \cup {[kind |-> "raise", outcome |-> NoResult, error |-> e] :
        e \in Exceptions}

\* ------------------------------------------------------------------------
\* executor_service/error_handlers.py
\* ------------------------------------------------------------------------
NON_RETRYABLE_ERRORS == {"TimeoutError", "MemoryError", "NetworkError"}
RETRYABLE_ERRORS == {"ResourceExhaustedError", "RuntimeError"}

is_retryable_unknown_retried(error) ==
    IF error.type \in NON_RETRYABLE_ERRORS THEN FALSE
    ELSE IF error.type \in RETRYABLE_ERRORS THEN TRUE
    ELSE IF error.is_execution_error THEN error.retryable
    ELSE TRUE

is_retryable(error) ==
    IF error.type \in NON_RETRYABLE_ERRORS THEN FALSE
    ELSE IF error.type \in RETRYABLE_ERRORS THEN TRUE
    ELSE IF error.is_execution_error THEN error.retryable
    ELSE FALSE

Min(a, b) == IF a < b THEN a ELSE b

calculate_backoff_uncapped(n) == 2 ^ n

calculate_backoff(n) == Min(2 ^ n, 60)

\* error_info: reason is "" and backoff_delay is -1 where the dictionary
\* has no such key.
ErrorInfo(status, error, retryable, attempts, reason, backoff_delay) ==
    [status |-> status, error_type |-> error.type, retryable |-> retryable,
     attempts |-> attempts, reason |-> reason,
     backoff_delay |-> backoff_delay]

handle_error_exhausts_early(error, n, max_retries) ==
    IF n + 1 >= max_retries
    THEN ErrorInfo("failed", error, FALSE, n + 1,
                   "Maximum retry attempts exceeded", -1)
    ELSE IF ~is_retryable(error)
    THEN ErrorInfo("failed", error, FALSE, n + 1, "", -1)
    ELSE ErrorInfo("retry", error, TRUE, n + 1, "", calculate_backoff(n))

handle_error(error, n, max_retries) ==
    IF n >= max_retries
    THEN ErrorInfo("failed", error, FALSE, n + 1,
                   "Maximum retry attempts exceeded", -1)
    ELSE IF ~is_retryable(error)
    THEN ErrorInfo("failed", error, FALSE, n + 1, "", -1)
    ELSE ErrorInfo("retry", error, TRUE, n + 1, "", calculate_backoff(n))

AttemptLine(i) == "Attempt " \o ToString(i) \o ":"

RECURSIVE FormatEntries(_, _)
FormatEntries(history, i) ==
    IF i > Len(history) THEN <<>>
    ELSE <<AttemptLine(i), "  Error Type: " \o history[i].error_type>>
         \o (IF history[i].reason # ""
             THEN <<"  Reason: " \o history[i].reason>> ELSE <<>>)
         \o FormatEntries(history, i + 1)

\* The lines of the report; the "Error:" line carries str(error), which the
\* model does not distinguish from the error type.
_format_error_history(history) ==
    <<"Execution failed after multiple attempts:">> \o FormatEntries(history, 1)

FailureResult(history) ==
    ExecutionResult("", _format_error_history(history), -1, 0, "failed")

ReturnResult_retries_failed(response) ==
    IF response.outcome.status = "failed" /\ attempt < rw_max_retries
    THEN /\ attempt' = attempt + 1
         /\ UNCHANGED <<rw_result, rw_pc, error_history, sleeps>>
    ELSE /\ rw_result' = response.outcome
         /\ rw_pc' = "done"
         /\ UNCHANGED <<attempt, error_history, sleeps>>

\* A result the executor returned ends the call, whatever its status.
ReturnResult(response) ==
    /\ rw_result' = response.outcome
    /\ rw_pc' = "done"
    /\ UNCHANGED <<attempt, error_history, sleeps>>

\* The except branch of the loop body.
HandleException(response) ==
    LET error_info == handle_error(response.error, attempt, rw_max_retries)
        history == Append(error_history, error_info)
    IN /\ error_history' = history
       /\ IF error_info.status # "retry"
          THEN /\ rw_result' = FailureResult(history)
               /\ rw_pc' = "done"
               /\ UNCHANGED <<attempt, sleeps>>
          ELSE /\ sleeps' = Append(sleeps, error_info.backoff_delay)
               /\ attempt' = attempt + 1
               /\ UNCHANGED <<rw_result, rw_pc>>

\* RetryWrapper.execute_with_retry, entry: the locals before the loop.
execute_with_retry ==
    /\ rw_pc \in {"idle", "done"}
    /\ rw_pc' = "loop"
    /\ attempt' = 0
    /\ error_history' = <<>>
    /\ rw_result' = NoResult
    /\ calls' = <<>>
    /\ sleeps' = <<>>
    /\ UNCHANGED <<rw_max_retries, notRetryVars>>

\* One iteration of the while loop: a call of executor.execute and what the
\* body does with its result or its exception.
Iteration(response) ==
    /\ rw_pc = "loop"
    /\ attempt <= rw_max_retries
    /\ calls' = Append(calls, response)
    /\ IF response.kind = "return"
       THEN ReturnResult(response)
       ELSE HandleException(response)
    /\ UNCHANGED <<rw_max_retries, notRetryVars>>

\* The code after the loop, reached when the loop condition is false.
LoopExhausted ==
    /\ rw_pc = "loop"
    /\ ~(attempt <= rw_max_retries)
    /\ rw_result' = FailureResult(error_history)
    /\ rw_pc' = "done"
    /\ UNCHANGED <<rw_max_retries, attempt, error_history, calls, sleeps,
                   notRetryVars>>

RetryIdle ==
    /\ rw_pc = "idle"
    /\ attempt = 0
    /\ error_history = <<>>
    /\ rw_result = NoResult
    /\ calls = <<>>
    /\ sleeps = <<>>

\* ------------------------------------------------------------------------
\* executor_service/event_hub_consumer.py
\* ------------------------------------------------------------------------
\* An event body: json_ok says json.loads succeeds, has_fields that the
\* object has the required fields of CodeExecutionRequest.
Body(json_ok, has_fields, request_id, code, timeout) ==
    [json_ok |-> json_ok, has_fields |-> has_fields,
     request_id |-> request_id, code |-> code, timeout |-> timeout]

Bodies ==
    { Body(FALSE, FALSE, "", "", 0),
      Body(TRUE, FALSE, "", MOCK_GENERATED, 30),
      Body(TRUE, TRUE, "r1", MOCK_GENERATED, 30),
      Body(TRUE, TRUE, "r2", "import pandas; result = pandas.__version__", 60),
      Body(TRUE, TRUE, "r3", CRASHING_SOURCE, 30),
      Body(TRUE, TRUE, "r4", "import os; os.system('ls')", 30) }

NoRequest == [request_id |-> "", code |-> "", timeout |-> 0]

\* _parse_message: the request, or MessageParsingError.
_parse_message(body) ==
    IF ~body.json_ok THEN [error |-> "MessageParsingError", request |-> NoRequest]
    ELSE IF ~body.has_fields
    THEN [error |-> "MessageParsingError", request |-> NoRequest]
    ELSE [error |-> "",
          request |-> [request_id |-> body.request_id, code |-> body.code,
                       timeout |-> body.timeout]]

\* ast.parse inside classify raises an exception classify does not catch.
ClassifyRaises(code) == code = CRASHING_SOURCE

\* What the sandbox executor may do for the consumer: return an outcome of
\* any status, or raise.
SandboxResponses ==
    {r \in ExecutorResponses : r.kind = "return" \/ r.error.type = "OSError"}

CreateJobResponses == {"created", "raise"}

NoEvent ==
    [seq |-> 0, request |-> NoRequest, complexity |-> "None",
     step_raised |-> "", dispatch |-> "", exec_calls |-> <<>>,
     job_calls |-> <<>>, ckpt_calls |-> 0]

Except_after_falls_through(event, step) ==
    /\ cur' = [event EXCEPT !.step_raised = step]
    /\ ev_pc' = "update_checkpoint"

\* An exception raised by step leaves the try block of _on_event: the
\* except clauses only log, so the handler continues at finally.
Except_after(event, step) ==
    /\ cur' = [event EXCEPT !.step_raised = step]
    /\ ev_pc' = "finally"

Except(step) == Except_after(cur, step)

\* _on_event, first part: the client delivers the next event of the
\* partition; the handler parses it and sets the logging context.
Receive ==
    /\ ev_pc = "idle"
    /\ next_seq <= Len(events)
    /\ LET parsed == _parse_message(events[next_seq])
           event == [NoEvent EXCEPT !.seq = next_seq] IN
       IF parsed.error # ""
       THEN /\ Except_after(event, "parse")
            /\ UNCHANGED request_id_ctx
       ELSE /\ cur' = [event EXCEPT !.request = parsed.request]
            /\ ev_pc' = "classify"
            /\ request_id_ctx' = parsed.request.request_id
    /\ UNCHANGED <<job_manager, events, next_seq, checkpoint, restarts,
                   last_handling, ack_log, notConsVars>>

Classify ==
    /\ ev_pc = "classify"
    /\ IF ClassifyRaises(cur.request.code)
       THEN Except("classify")
       ELSE /\ cur' = [cur EXCEPT !.complexity = classify(cur.request.code)]
            /\ ev_pc' = "dispatch"
    /\ UNCHANGED <<job_manager, events, next_seq, checkpoint, restarts,
                   request_id_ctx, last_handling, ack_log, notConsVars>>

\* _handle_heavy_code
_handle_heavy_code(response) ==
    /\ ev_pc = "dispatch"
    /\ cur.complexity = "heavy"
    /\ IF job_manager = "None"
       THEN /\ response = "raise"
            /\ Except("no_job_manager")
       ELSE LET job_request == [request_id |-> cur.request.request_id,
                                code |-> cur.request.code]
                called == [cur EXCEPT !.job_calls = Append(@, job_request)]
            IN IF response = "raise"
               THEN Except_after(called, "create_job")
               ELSE /\ cur' = [called EXCEPT !.dispatch = "job_created"]
                    /\ ev_pc' = "update_checkpoint"
    /\ UNCHANGED <<job_manager, events, next_seq, checkpoint, restarts,
                   request_id_ctx, last_handling, ack_log, notConsVars>>

_handle_lightweight_code_unrouted(response) ==
    /\ ev_pc = "dispatch"
    /\ LET called == [cur EXCEPT !.exec_calls = Append(@, cur.request)] IN
       IF response.kind = "raise"
       THEN Except_after(called, "execute")
       ELSE /\ cur' = [called EXCEPT !.dispatch = response.outcome.status]
            /\ ev_pc' = "update_checkpoint"
    /\ UNCHANGED <<job_manager, events, next_seq, checkpoint, restarts,
                   request_id_ctx, last_handling, ack_log, notConsVars>>

\* _handle_lightweight_code: the status of the returned outcome is logged
\* and not looked at; only an exception of the executor raises.
_handle_lightweight_code(response) ==
    /\ ev_pc = "dispatch"
    /\ cur.complexity # "heavy"
    /\ LET called == [cur EXCEPT !.exec_calls = Append(@, cur.request)] IN
       IF response.kind = "raise"
       THEN Except_after(called, "execute")
       ELSE /\ cur' = [called EXCEPT !.dispatch = response.outcome.status]
            /\ ev_pc' = "update_checkpoint"
    /\ UNCHANGED <<job_manager, events, next_seq, checkpoint, restarts,
                   request_id_ctx, last_handling, ack_log, notConsVars>>

\* partition_context.update_checkpoint(event): stores the event's sequence
\* number as the point after which a restarted receiver resumes, or raises.
update_checkpoint(raises) ==
    /\ ev_pc = "update_checkpoint"
    /\ cur' = [cur EXCEPT !.ckpt_calls = @ + 1,
                          !.step_raised = IF raises THEN "update_checkpoint"
                                          ELSE @]
    /\ IF raises
       THEN UNCHANGED <<checkpoint, ack_log>>
       ELSE /\ checkpoint' = cur.seq
            /\ ack_log' = ack_log \cup {<<cur.seq, cur.dispatch>>}
    /\ ev_pc' = "finally"
    /\ UNCHANGED <<job_manager, events, next_seq, restarts, request_id_ctx,
                   last_handling, notConsVars>>

Finally_keeps_request_id ==
    /\ ev_pc = "finally"
    /\ request_id_ctx' = request_id_ctx
    /\ last_handling' = [last_handling EXCEPT ![cur.seq] =
                            IF cur.step_raised # "" THEN "raised"
                            ELSE "completed"]
    /\ next_seq' = cur.seq + 1
    /\ ev_pc' = "idle"
    /\ UNCHANGED <<job_manager, events, checkpoint, restarts, cur, ack_log,
                   notConsVars>>

\* The except clauses only log; finally clears the logging context and the
\* handler returns, so the client goes on to the next event.
Finally ==
    /\ ev_pc = "finally"
    /\ request_id_ctx' = ""
    /\ last_handling' = [last_handling EXCEPT ![cur.seq] =
                            IF cur.step_raised # "" THEN "raised"
                            ELSE "completed"]
    /\ next_seq' = cur.seq + 1
    /\ ev_pc' = "idle"
    /\ UNCHANGED <<job_manager, events, checkpoint, restarts, cur, ack_log,
                   notConsVars>>

Restart_from_beginning ==
    /\ ev_pc = "idle"
    /\ restarts < MaxRestarts
    /\ restarts' = restarts + 1
    /\ next_seq' = 1
    /\ UNCHANGED <<job_manager, events, checkpoint, ev_pc, cur,
                   request_id_ctx, last_handling, ack_log, notConsVars>>

\* The receiver is restarted (process restart, partition rebalance): the
\* client resumes after the stored checkpoint.
Restart ==
    /\ ev_pc = "idle"
    /\ restarts < MaxRestarts
    /\ restarts' = restarts + 1
    /\ next_seq' = checkpoint + 1
    /\ UNCHANGED <<job_manager, events, checkpoint, ev_pc, cur,
                   request_id_ctx, last_handling, ack_log, notConsVars>>

\* ------------------------------------------------------------------------
\* executor_service/secure_executor.py
\* ------------------------------------------------------------------------
DEFAULT_TIMEOUT == 30

\* The timeout argument of execute; NoTimeout stands for None.
NoTimeout == -1

Timeouts == {NoTimeout, 5}

Returned(outcome) ==
    [kind |-> "return", outcome |-> outcome, error |-> Exc("", FALSE, FALSE)]

Raising(error) == [kind |-> "raise", outcome |-> NoResult, error |-> error]

NoResponse == [kind |-> "none", outcome |-> NoResult,
               error |-> Exc("", FALSE, FALSE)]

\* SecureExecutor.execute up to tempfile.mkdtemp, which may raise.
SecureExecutor_execute(timeout, mkdtemp_raises) ==
    /\ se_pc \in {"idle", "done"}
    /\ se_count < MaxExecutions
    /\ se_count' = se_count + 1
    /\ se_timeout' = IF timeout # NoTimeout THEN timeout ELSE DEFAULT_TIMEOUT
    /\ se_response' = NoResponse
    /\ IF mkdtemp_raises
       THEN /\ temp_dir' = 0
            /\ disk' = disk
            /\ se_run' = Raising(Exc("OSError", FALSE, FALSE))
            /\ se_pc' = "finally"
       ELSE /\ temp_dir' = se_count + 1
            /\ disk' = disk \cup {se_count + 1}
            /\ se_run' = NoResponse
            /\ se_pc' = "run"
    /\ UNCHANGED <<rmtree_calls, notSandboxVars>>

\* subprocess.run: the child exits or times out, or cannot be spawned.
subprocess_run(child, spawn_raises) ==
    /\ se_pc = "run"
    /\ se_run' = IF spawn_raises THEN Raising(Exc("OSError", FALSE, FALSE))
                 ELSE Returned(RunOutcome(child))
    /\ se_pc' = "finally"
    /\ UNCHANGED <<se_count, se_timeout, temp_dir, disk, se_response,
                   rmtree_calls, notSandboxVars>>

CleanupTempDir_error_propagates(rmtree_raises) ==
    /\ se_pc = "finally"
    /\ IF temp_dir # 0
       THEN /\ rmtree_calls' = Append(rmtree_calls,
                                      [dir |-> temp_dir, raised |-> rmtree_raises])
            /\ disk' = IF rmtree_raises THEN disk ELSE disk \ {temp_dir}
            /\ se_response' = IF rmtree_raises
                              THEN Raising(Exc("PermissionError", FALSE, FALSE))
                              ELSE se_run
       ELSE /\ ~rmtree_raises
            /\ se_response' = se_run
            /\ UNCHANGED <<rmtree_calls, disk>>
    /\ se_pc' = "done"
    /\ UNCHANGED <<se_count, se_timeout, temp_dir, se_run, notSandboxVars>>

\* The finally clause: shutil.rmtree(temp_dir) when a directory was made,
\* its exception logged and dropped; then the return or raise of the try
\* block takes effect.
CleanupTempDir(rmtree_raises) ==
    /\ se_pc = "finally"
    /\ IF temp_dir # 0
       THEN /\ rmtree_calls' = Append(rmtree_calls,
                                      [dir |-> temp_dir, raised |-> rmtree_raises])
            /\ disk' = IF rmtree_raises THEN disk ELSE disk \ {temp_dir}
       ELSE /\ ~rmtree_raises
            /\ UNCHANGED <<rmtree_calls, disk>>
    /\ se_response' = se_run
    /\ se_pc' = "done"
    /\ UNCHANGED <<se_count, se_timeout, temp_dir, se_run, notSandboxVars>>

SandboxIdle ==
    /\ se_pc = "idle"
    /\ se_count = 0
    /\ se_timeout = 0
    /\ temp_dir = 0
    /\ disk = {}
    /\ se_run = NoResponse
    /\ se_response = NoResponse
    /\ rmtree_calls = <<>>

\* ------------------------------------------------------------------------
\* shared/repository.py and shared/database.py
\* ------------------------------------------------------------------------
\* A column that is NULL holds "NULL"; a Python argument that is None is
\* "None".  A resource_usage argument is None, the empty dictionary, or a
\* dictionary with the timeout.
NULL == "NULL"

RequestIdsOfRuns == {"req-1", "req-2"}

Classifications == {"None", "lightweight", "heavy"}

ResourceUsages == {"None", "{}", "{'timeout': 30}"}

\* Truth value of an optional argument: None, "" and {} are false.
Truthy(value) == value \notin {"None", "", "{}"}

json_dumps(resource_usage) ==
    IF resource_usage = "{}" THEN "{}" ELSE "{\"timeout\": 30}"

JobHistory(id, request_id, timestamp, status, code, exit_code, duration_ms, classification, resource_usage, updated_at) ==
    [id |-> id, request_id |-> request_id, timestamp |-> timestamp,
     status |-> status, code |-> code, exit_code |-> exit_code,
     duration_ms |-> duration_ms, classification |-> classification,
     resource_usage |-> resource_usage, updated_at |-> updated_at]

\* session.query(JobHistory).filter_by(request_id=...).first(): the index
\* of the first row with that request id, 0 if there is none.
FirstRow(rows, request_id) ==
    IF \E i \in 1..Len(rows) : rows[i].request_id = request_id
    THEN CHOOSE i \in 1..Len(rows) :
            /\ rows[i].request_id = request_id
            /\ \A j \in 1..(i - 1) : rows[j].request_id # request_id
    ELSE 0

SavedRows_always_inserts(rows, now, execution_result, code, classification, resource_usage) ==
    Append(rows,
           JobHistory(Len(rows) + 1, execution_result.request_id, now,
                      execution_result.status, code,
                      execution_result.exit_code,
                      execution_result.duration_ms,
                      IF classification = "None" THEN NULL ELSE classification,
                      IF Truthy(resource_usage)
                      THEN json_dumps(resource_usage) ELSE NULL,
                      now))

\* JobHistoryRepository.save_execution, the table after its commit: the
\* existing row of the request id updated, or a new row appended.
SavedRows(rows, now, execution_result, code, classification, resource_usage) ==
    LET existing == FirstRow(rows, execution_result.request_id) IN
    IF existing # 0
    THEN [rows EXCEPT ![existing] =
            [@ EXCEPT !.status = execution_result.status,
                      !.exit_code = execution_result.exit_code,
                      !.duration_ms = execution_result.duration_ms,
                      !.timestamp = now,
                      !.updated_at = now,
                      !.classification =
                          IF Truthy(classification) THEN classification
                          ELSE @,
                      !.resource_usage =
                          IF Truthy(resource_usage)
                          THEN json_dumps(resource_usage) ELSE @]]
    ELSE Append(rows,
                JobHistory(Len(rows) + 1, execution_result.request_id, now,
                           execution_result.status, code,
                           execution_result.exit_code,
                           execution_result.duration_ms,
                           IF classification = "None" THEN NULL
                           ELSE classification,
                           IF Truthy(resource_usage)
                           THEN json_dumps(resource_usage) ELSE NULL,
                           now))

ResultsOfRuns ==
    {[o EXCEPT !.request_id = r] : o \in ExecutorOutcomes,
                                   r \in RequestIdsOfRuns}

NoRecord == [kind |-> "none", request_id |-> "", status |-> ""]

\* A save_execution call on a session of its own; commit may raise, and
\* then the table is as before.
save_execution(execution_result, code, classification, resource_usage, commit_raises) ==
    /\ save_count < MaxSaves
    /\ save_count' = save_count + 1
    /\ db_clock' = db_clock + 1
    /\ IF commit_raises
       THEN /\ job_history' = job_history
            /\ saved_record' = [kind |-> "raised",
                                request_id |-> execution_result.request_id,
                                status |-> execution_result.status]
       ELSE /\ job_history' = SavedRows(job_history, db_clock + 1, execution_result,
                                    code, classification, resource_usage)
            /\ saved_record' = [kind |-> "saved",
                                request_id |-> execution_result.request_id,
                                status |-> execution_result.status]
    /\ UNCHANGED notDbVars

DbIdle ==
    /\ job_history = <<>>
    /\ db_clock = 0
    /\ save_count = 0
    /\ saved_record = NoRecord

\* ------------------------------------------------------------------------
\* executor_service/api.py
\* ------------------------------------------------------------------------
NoApiRequest == [handler |-> "none", request_id |-> "", timeout |-> 0]

\* The response the caller sees: the status code and, for execute_snippet,
\* the outcome in the body.
ApiResponse(status_code, outcome) ==
    [status_code |-> status_code, outcome |-> outcome]

NoApiResponse == ApiResponse(0, NoResult)

\* What the database does for one handler: everything works, get_session
\* raises, or the repository call raises.
\* execute_snippet passes resource_usage={"timeout": request.timeout}.
ApiTimeouts == {30}

DbBehaviours == {"ok", "get_session_raises", "repository_raises"}

\* execute_snippet up to the try block: the request id enters the map.
execute_snippet(request_id, timeout) ==
    /\ api_pc \in {"idle", "done"}
    /\ api_count < MaxRequests
    /\ api_count' = api_count + 1
    /\ api_request' = [handler |-> "execute_snippet",
                       request_id |-> request_id, timeout |-> timeout]
    /\ active_executions' = active_executions \cup {request_id}
    /\ api_result' = NoResponse
    /\ api_response' = NoApiResponse
    /\ persist_outcome' = "none"
    /\ api_pc' = "execute"
    /\ UNCHANGED <<open_sessions, sessions_made, dbVars, notApiDbVars>>

\* executor.execute returns an outcome or raises; a raise is turned into
\* HTTPException 500 by the except clause.
ExecutorExecute(response) ==
    /\ api_pc = "execute"
    /\ api_result' = [response EXCEPT
                        !.outcome.request_id =
                            IF response.kind = "return"
                            THEN api_request.request_id ELSE @]
    /\ IF response.kind = "raise"
       THEN /\ api_response' = ApiResponse(500, NoResult)
            /\ api_pc' = "finally"
       ELSE /\ api_response' = api_response
            /\ api_pc' = "persist"
    /\ UNCHANGED <<active_executions, api_count, api_request, open_sessions,
                   sessions_made, persist_outcome, dbVars, notApiDbVars>>

SaveToHistory_failure_propagates(db) ==
    /\ api_pc = "persist"
    /\ persist_outcome' = db
    /\ IF db = "get_session_raises"
       THEN UNCHANGED <<open_sessions, sessions_made, job_history, db_clock>>
       ELSE /\ sessions_made' = sessions_made + 1
            /\ db_clock' = db_clock + 1
            /\ IF db = "repository_raises"
               THEN /\ open_sessions' = open_sessions \cup {sessions_made + 1}
                    /\ job_history' = job_history
               ELSE /\ open_sessions' = open_sessions
                    /\ job_history' = SavedRows(job_history, db_clock + 1,
                                            api_result.outcome, MOCK_GENERATED,
                                            "lightweight", "{'timeout': 30}")
    /\ api_response' = IF db = "ok" THEN ApiResponse(200, api_result.outcome)
                       ELSE ApiResponse(500, NoResult)
    /\ api_pc' = "finally"
    /\ UNCHANGED <<active_executions, api_count, api_request, api_result,
                   save_count, saved_record, notApiDbVars>>

\* The inner try of execute_snippet and the return that follows it:
\* get_session, save_execution, session.close; an exception of any of
\* them is logged and dropped, and session.close is not reached when
\* save_execution raised.
SaveToHistory(db) ==
    /\ api_pc = "persist"
    /\ persist_outcome' = db
    /\ IF db = "get_session_raises"
       THEN UNCHANGED <<open_sessions, sessions_made, job_history, db_clock>>
       ELSE /\ sessions_made' = sessions_made + 1
            /\ db_clock' = db_clock + 1
            /\ IF db = "repository_raises"
               THEN /\ open_sessions' = open_sessions \cup {sessions_made + 1}
                    /\ job_history' = job_history
               ELSE /\ open_sessions' = open_sessions
                    /\ job_history' = SavedRows(job_history, db_clock + 1,
                                            api_result.outcome, MOCK_GENERATED,
                                            "lightweight", "{'timeout': 30}")
    /\ api_response' = ApiResponse(200, api_result.outcome)
    /\ api_pc' = "finally"
    /\ UNCHANGED <<active_executions, api_count, api_request, api_result,
                   save_count, saved_record, notApiDbVars>>

PopActiveExecution_only_on_success ==
    /\ api_pc = "finally"
    /\ active_executions' =
           IF api_response.status_code = 200
           THEN active_executions \ {api_request.request_id}
           ELSE active_executions
    /\ api_pc' = "done"
    /\ UNCHANGED <<api_count, api_request, api_result, api_response,
                   open_sessions, sessions_made, persist_outcome, dbVars,
                   notApiDbVars>>

\* The finally clause of execute_snippet.
PopActiveExecution ==
    /\ api_pc = "finally"
    /\ active_executions' = active_executions \ {api_request.request_id}
    /\ api_pc' = "done"
    /\ UNCHANGED <<api_count, api_request, api_result, api_response,
                   open_sessions, sessions_made, persist_outcome, dbVars,
                   notApiDbVars>>

\* get_job_history: session.close is reached only when no repository call
\* raised.
get_job_history(db) ==
    /\ api_pc \in {"idle", "done"}
    /\ api_count < MaxRequests
    /\ api_count' = api_count + 1
    /\ api_request' = [handler |-> "get_job_history", request_id |-> "",
                       timeout |-> 0]
    /\ IF db = "get_session_raises"
       THEN UNCHANGED <<open_sessions, sessions_made>>
       ELSE /\ sessions_made' = sessions_made + 1
            /\ open_sessions' = IF db = "repository_raises"
                                THEN open_sessions \cup {sessions_made + 1}
                                ELSE open_sessions
    /\ api_response' = ApiResponse(IF db = "ok" THEN 200 ELSE 500, NoResult)
    /\ api_result' = NoResponse
    /\ persist_outcome' = "none"
    /\ api_pc' = "done"
    /\ UNCHANGED <<active_executions, dbVars, notApiDbVars>>

\* get_job_by_request_id: 404 after session.close when there is no record.
get_job_by_request_id(request_id, db) ==
    /\ api_pc \in {"idle", "done"}
    /\ api_count < MaxRequests
    /\ api_count' = api_count + 1
    /\ api_request' = [handler |-> "get_job_by_request_id",
                       request_id |-> request_id, timeout |-> 0]
    /\ IF db = "get_session_raises"
       THEN UNCHANGED <<open_sessions, sessions_made>>
       ELSE /\ sessions_made' = sessions_made + 1
            /\ open_sessions' = IF db = "repository_raises"
                                THEN open_sessions \cup {sessions_made + 1}
                                ELSE open_sessions
    /\ api_response' =
           ApiResponse(IF db # "ok" THEN 500
                       ELSE IF FirstRow(job_history, request_id) = 0 THEN 404
                       ELSE 200, NoResult)
    /\ api_result' = NoResponse
    /\ persist_outcome' = "none"
    /\ api_pc' = "done"
    /\ UNCHANGED <<active_executions, dbVars, notApiDbVars>>

ApiIdle ==
    /\ active_executions = {}
    /\ api_pc = "idle"
    /\ api_count = 0
    /\ api_request = NoApiRequest
    /\ api_result = NoResponse
    /\ api_response = NoApiResponse
    /\ open_sessions = {}
    /\ sessions_made = 0
    /\ persist_outcome = "none"

\* ------------------------------------------------------------------------
\* executor_service/kubernetes_job_manager.py
\* ------------------------------------------------------------------------
\* Strings are sequences of characters.  A request id is a run of "x"
\* between two affixes of at most one character, the affix characters
\* standing for the classes str.isalnum and str.lower tell apart: an ASCII
\* lower-case letter, an ASCII capital, a digit, the hyphen, another ASCII
\* character, and a non-ASCII letter ("U+00E9", one character).
ASCII_LOWER ==
    {"a", "b", "c", "d", "e", "f", "g", "h", "i", "j", "k", "l", "m",
     "n", "o", "p", "q", "r", "s", "t", "u", "v", "w", "x", "y", "z"}

ASCII_DIGITS == {"0", "1", "2", "3", "4", "5", "6", "7", "8", "9"}

RequestChars == {"a", "A", "7", "-", "_", "U+00E9"}

Affixes == {<<>>} \cup {<<c>> : c \in RequestChars}

Fill(n) == [i \in 1..n |-> "x"]

RequestIds ==
    {p \o Fill(n) \o q : p \in Affixes, q \in Affixes, n \in 0..MaxFill}

\* str.isalnum and str.lower on the characters above.
isalnum(c) == c \in ASCII_LOWER \cup ASCII_DIGITS \cup {"A", "U+00E9"}

lower(c) == IF c = "A" THEN "a" ELSE c

KeepChar(c) == isalnum(c) \/ c = "-"

HEAVY_EXECUTOR_PREFIX ==
    <<"h", "e", "a", "v", "y", "-", "e", "x", "e", "c", "u", "t", "o", "r", "-">>

JOB_PREFIX == <<"j", "o", "b", "-">>

_generate_job_id(request_id) ==
    LET kept == SelectSeq(request_id, KeepChar)
        clean_id == [i \in 1..Len(kept) |-> lower(kept[i])]
        started == IF clean_id # <<>> /\ ~isalnum(clean_id[1])
                   THEN JOB_PREFIX \o clean_id ELSE clean_id
        truncated == IF Len(started) > 50 THEN SubSeq(started, 1, 50)
                     ELSE started
    IN  HEAVY_EXECUTOR_PREFIX \o truncated

\* What batch_v1.create_namespaced_job / delete_namespaced_job may do.
ApiResponses == {"ok", "ApiException"}

DeleteCall(name) == [name |-> name, propagation_policy |-> "Background"]

\* shared/models.py ResourceLimits and JobCreationRequest.
ResourceLimits(cpu_limit, memory_limit, cpu_request, memory_request, timeout_seconds) ==
    [cpu_limit |-> cpu_limit, memory_limit |-> memory_limit,
     cpu_request |-> cpu_request, memory_request |-> memory_request,
     timeout_seconds |-> timeout_seconds]

JobCreationRequest(request_id, code, resource_limits) ==
    [request_id |-> request_id, code |-> code,
     resource_limits |-> resource_limits]

\* The code and the limits of the requests given to create_job: the
\* defaults of ResourceLimits, and limits chosen by the caller.
JobPayloads ==
    { [code |-> "import pandas; result = pandas.__version__",
       resource_limits |-> ResourceLimits("4", "8Gi", "2", "4Gi", 300)],
      [code |-> "for i in a:; for j in b:; for k in c: pass",
       resource_limits |-> ResourceLimits("500m", "256Mi", "250m", "128Mi", 45)] }

TtlSeconds == {3600, 120}

\* str(n) of a non-negative int, as a sequence of characters.
DecimalDigits == <<"0", "1", "2", "3", "4", "5", "6", "7", "8", "9">>

RECURSIVE str(_)
str(n) ==
    IF n < 10 THEN <<DecimalDigits[n + 1]>>
    ELSE Append(str(n \div 10), DecimalDigits[(n % 10) + 1])

IMAGE == "heavy-executor:latest"

_build_job_spec_restarting(job_id, request, ttl_seconds) ==
    [api_version |-> "batch/v1", kind |-> "Job", name |-> job_id,
     labels |-> [app |-> "heavy-executor",
                 request_id |-> request.request_id,
                 component |-> "job-runner"],
     backoff_limit |-> 6,
     ttl_seconds_after_finished |-> ttl_seconds,
     restart_policy |-> "OnFailure",
     container |->
        [name |-> "executor", image |-> IMAGE,
         env |-> [CODE |-> request.code,
                  REQUEST_ID |-> request.request_id,
                  TIMEOUT |-> str(request.resource_limits.timeout_seconds)],
         limits |-> [cpu |-> request.resource_limits.cpu_limit,
                     memory |-> request.resource_limits.memory_limit],
         requests |-> [cpu |-> request.resource_limits.cpu_request,
                       memory |-> request.resource_limits.memory_request],
         security_context |->
            [run_as_non_root |-> TRUE, read_only_root_filesystem |-> TRUE,
             allow_privilege_escalation |-> FALSE, run_as_user |-> 1000],
         pre_stop |-> <<"/bin/sh", "-c", "echo 'Graceful shutdown initiated'">>]]

\* _build_job_spec: the V1Job, flattened to the fields it sets.
_build_job_spec(job_id, request, ttl_seconds) ==
    [api_version |-> "batch/v1", kind |-> "Job", name |-> job_id,
     labels |-> [app |-> "heavy-executor",
                 request_id |-> request.request_id,
                 component |-> "job-runner"],
     backoff_limit |-> 0,
     ttl_seconds_after_finished |-> ttl_seconds,
     restart_policy |-> "Never",
     container |->
        [name |-> "executor", image |-> IMAGE,
         env |-> [CODE |-> request.code,
                  REQUEST_ID |-> request.request_id,
                  TIMEOUT |-> str(request.resource_limits.timeout_seconds)],
         limits |-> [cpu |-> request.resource_limits.cpu_limit,
                     memory |-> request.resource_limits.memory_limit],
         requests |-> [cpu |-> request.resource_limits.cpu_request,
                       memory |-> request.resource_limits.memory_request],
         security_context |->
            [run_as_non_root |-> TRUE, read_only_root_filesystem |-> TRUE,
             allow_privilege_escalation |-> FALSE, run_as_user |-> 1000],
         pre_stop |-> <<"/bin/sh", "-c", "echo 'Graceful shutdown initiated'">>]]

NoJobRequest == JobCreationRequest(<<>>, "", ResourceLimits("", "", "", "", 0))

NoJobBody == _build_job_spec(<<>>, NoJobRequest, 0)

\* create_job: the job is built and given to create_namespaced_job, which
\* accepts it or raises ApiException (re-raised by create_job).
create_job(request, response) ==
    /\ km_pc = "idle"
    /\ km_request' = request
    /\ km_request_id' = request.request_id
    /\ km_job_id' = _generate_job_id(request.request_id)
    /\ km_submitted' = _build_job_spec(km_job_id', request, km_ttl_seconds)
    /\ km_pc' = IF response = "ok" THEN "created" ELSE "raised"
    /\ UNCHANGED <<km_delete_calls, km_delete_result, km_ttl_seconds,
                   notJobVars>>

delete_job(response) ==
    /\ km_pc = "created"
    /\ Len(km_delete_calls) < MaxDeleteCalls
    /\ km_delete_calls' = Append(km_delete_calls, DeleteCall(km_job_id))
    /\ km_delete_result' = IF response = "ok" THEN "True" ELSE "False"
    /\ UNCHANGED <<km_pc, km_request_id, km_job_id, km_submitted, km_request,
                   km_ttl_seconds, notJobVars>>

JobIdle ==
    /\ km_pc = "idle"
    /\ km_request_id = <<>>
    /\ km_job_id = <<>>
    /\ km_delete_calls = <<>>
    /\ km_delete_result = "None"
    /\ km_submitted = NoJobBody
    /\ km_request = NoJobRequest

\* ------------------------------------------------------------------------
\* executor_service/error_handlers.py: JobErrorHandler
\* ------------------------------------------------------------------------
Condition(type, reason) == [type |-> type, reason |-> reason]

\* job.status.conditions of a watch event; reason "None" is a condition
\* without a reason.
ConditionLists ==
    {<<>>,
     <<Condition("Complete", "None")>>,
     <<Condition("Failed", "DeadlineExceeded")>>,
     <<Condition("Failed", "BackoffLimitExceeded")>>,
     <<Condition("Failed", "None")>>,
     <<Condition("Failed", "BackoffLimitExceeded"),
       Condition("Failed", "DeadlineExceeded")>>}

\* job.status of a watch event; a count of None is 0.
JobStatuses ==
    [succeeded : 0..1, failed : 0..MaxFailedPods, conditions : ConditionLists]

\* No event delivered yet.
NoJob == [succeeded |-> -1, failed |-> -1, conditions |-> <<>>]

MonitoredJobIds == {_generate_job_id(Fill(1)), <<"t", "e", "s", "t">>}

MonitorResult(status, failed_count, reason) ==
    [status |-> status, failed_count |-> failed_count, reason |-> reason]

NoMonitorResult == MonitorResult("None", -1, "<absent>")

FailedConditions(job) ==
    SelectSeq(job.conditions, LAMBDA c : c.type = "Failed")

_get_failure_reason(job) ==
    IF FailedConditions(job) = <<>> THEN "Unknown"
    ELSE IF Head(FailedConditions(job)).reason = "None" THEN "Unknown"
    ELSE Head(FailedConditions(job)).reason

DeadlineConditions(job) ==
    SelectSeq(job.conditions,
              LAMBDA c : c.type = "Failed" /\ c.reason = "DeadlineExceeded")

WatchLoopBody_failed_first(job, elapsed, timeout, max_retries) ==
    IF elapsed > timeout THEN MonitorResult("timeout", -1, "<absent>")
    ELSE IF job.failed # 0 /\ job.failed >= max_retries
         THEN MonitorResult("failed", job.failed, _get_failure_reason(job))
    ELSE IF job.succeeded # 0 THEN MonitorResult("success", -1, "<absent>")
    ELSE IF DeadlineConditions(job) # <<>>
         THEN MonitorResult("failed", -1, "DeadlineExceeded")
    ELSE NoMonitorResult

\* The body of the watch loop for one event: the dictionary it returns, or
\* NoMonitorResult when the loop goes on to the next event.
WatchLoopBody(job, elapsed, timeout, max_retries) ==
    IF elapsed > timeout THEN MonitorResult("timeout", -1, "<absent>")
    ELSE IF job.succeeded # 0 THEN MonitorResult("success", -1, "<absent>")
    ELSE IF job.failed # 0 /\ job.failed >= max_retries
         THEN MonitorResult("failed", job.failed, _get_failure_reason(job))
    ELSE IF DeadlineConditions(job) # <<>>
         THEN MonitorResult("failed", -1, "DeadlineExceeded")
    ELSE NoMonitorResult

monitor_job(job_id, timeout) ==
    /\ mon_pc \in {"idle", "returned"}
    /\ mon_pc' = "watching"
    /\ mon_job_id' = job_id
    /\ mon_timeout' = timeout
    /\ mon_elapsed' = 0
    /\ watch_event' = NoJob
    /\ monitor_result' = NoMonitorResult
    /\ UNCHANGED <<max_job_retries, jh_delete_calls, cleanup_result,
                   notMonVars>>

WatchEvent_cancels_on_timeout(job, elapsed) ==
    /\ mon_pc = "watching"
    /\ elapsed >= mon_elapsed
    /\ mon_elapsed' = elapsed
    /\ watch_event' = job
    /\ monitor_result' =
           WatchLoopBody(job, elapsed, mon_timeout, max_job_retries)
    /\ mon_pc' = IF monitor_result'.status = "None" THEN "watching"
                 ELSE "returned"
    /\ jh_delete_calls' =
           IF monitor_result'.status = "timeout"
           THEN Append(jh_delete_calls, DeleteCall(mon_job_id))
           ELSE jh_delete_calls
    /\ UNCHANGED <<max_job_retries, mon_job_id, mon_timeout,
                   cleanup_result, notMonVars>>

\* The stream delivers an event when elapsed seconds have passed.
WatchEvent(job, elapsed) ==
    /\ mon_pc = "watching"
    /\ elapsed >= mon_elapsed
    /\ mon_elapsed' = elapsed
    /\ watch_event' = job
    /\ monitor_result' =
           WatchLoopBody(job, elapsed, mon_timeout, max_job_retries)
    /\ mon_pc' = IF monitor_result'.status = "None" THEN "watching"
                 ELSE "returned"
    /\ UNCHANGED <<max_job_retries, mon_job_id, mon_timeout,
                   jh_delete_calls, cleanup_result, notMonVars>>

\* The stream ends (timeout_seconds reached, or closed by the server).
StreamEnds(elapsed) ==
    /\ mon_pc = "watching"
    /\ elapsed >= mon_elapsed
    /\ mon_elapsed' = elapsed
    /\ monitor_result' = MonitorResult("running", -1, "<absent>")
    /\ mon_pc' = "returned"
    /\ UNCHANGED <<max_job_retries, mon_job_id, mon_timeout, watch_event,
                   jh_delete_calls, cleanup_result, notMonVars>>

StreamRaises_cleans_up(elapsed) ==
    /\ mon_pc = "watching"
    /\ elapsed >= mon_elapsed
    /\ mon_elapsed' = elapsed
    /\ monitor_result' = MonitorResult("error", -1, "<absent>")
    /\ mon_pc' = "returned"
    /\ jh_delete_calls' = Append(jh_delete_calls, DeleteCall(mon_job_id))
    /\ UNCHANGED <<max_job_retries, mon_job_id, mon_timeout, watch_event,
                   cleanup_result, notMonVars>>

\* The stream raises ApiException.
StreamRaises(elapsed) ==
    /\ mon_pc = "watching"
    /\ elapsed >= mon_elapsed
    /\ mon_elapsed' = elapsed
    /\ monitor_result' = MonitorResult("error", -1, "<absent>")
    /\ mon_pc' = "returned"
    /\ UNCHANGED <<max_job_retries, mon_job_id, mon_timeout, watch_event,
                   jh_delete_calls, cleanup_result, notMonVars>>

cleanup_job(response) ==
    /\ mon_pc = "returned"
    /\ Len(jh_delete_calls) < MaxDeleteCalls
    /\ jh_delete_calls' = Append(jh_delete_calls, DeleteCall(mon_job_id))
    /\ cleanup_result' = IF response = "ok" THEN "True" ELSE "False"
    /\ UNCHANGED <<max_job_retries, mon_pc, mon_job_id, mon_timeout,
                   mon_elapsed, watch_event, monitor_result, notMonVars>>

MonIdle ==
    /\ mon_pc = "idle"
    /\ mon_job_id = <<>>
    /\ mon_timeout = 0
    /\ mon_elapsed = 0
    /\ watch_event = NoJob
    /\ monitor_result = NoMonitorResult
    /\ jh_delete_calls = <<>>
    /\ cleanup_result = "None"

\* ------------------------------------------------------------------------
\* The validator and the classifier called on their own: a validator is
\* constructed with or without an allowlist override and then validate and
\* classify are called on sources.
\* ------------------------------------------------------------------------
AllowlistOverrides ==
    { {}, {"math"}, {"pickle"}, {"os", "math"}, {"math", "pandas"},
      DEFAULT_ALLOWLIST \cup {"sys", "pickle"} }

AnalysedSources ==
    Programs \cup { "from math import *; result = pi",
                    "from os import *; result = getcwd()",
                    "import pickle; result = pickle.dumps(1)",
                    "from os.path import join; result = join('a', 'b')",
                    CRASHING_SOURCE }

\* CodeValidator.validate(code): only SyntaxError is caught around
\* ast.parse, any other exception of the parser leaves validate.
ValidateCall(code) ==
    /\ an_source' = code
    /\ an_verdict' = IF ClassifyRaises(code) THEN "raised"
                     ELSE CodeValidator_validate(code, cv_allowlist)
    /\ an_complexity' = "None"
    /\ UNCHANGED <<cv_allowlist, notAnalysisVars>>

\* CodeClassifier.classify(code): the same holds for its ast.parse.
ClassifyCall(code) ==
    /\ an_source' = code
    /\ an_complexity' = IF ClassifyRaises(code) THEN "raised"
                        ELSE classify(code)
    /\ an_verdict' = "None"
    /\ UNCHANGED <<cv_allowlist, notAnalysisVars>>

AnalysisIdle ==
    /\ cv_allowlist = DEFAULT_ALLOWLIST
    /\ an_source = ""
    /\ an_verdict = "None"
    /\ an_complexity = "None"

ConsIdle ==
    /\ events = <<>>
    /\ next_seq = 1
    /\ checkpoint = 0
    /\ restarts = 0
    /\ ev_pc = "idle"
    /\ cur = NoEvent
    /\ request_id_ctx = ""
    /\ last_handling = <<>>
    /\ ack_log = {}

ConsInit ==
    /\ job_manager \in {"present", "None"}
    /\ events \in [1..MaxEvents -> Bodies]
    /\ next_seq = 1
    /\ checkpoint = 0
    /\ restarts = 0
    /\ ev_pc = "idle"
    /\ cur = NoEvent
    /\ request_id_ctx = ""
    /\ last_handling = [i \in 1..MaxEvents |-> "none"]
    /\ ack_log = {}
    /\ llm_client = "mock"
    /\ FlowIdle
    /\ rw_max_retries = 3
    /\ RetryIdle
    /\ JobIdle
    /\ km_ttl_seconds = 3600
    /\ max_job_retries = 3
    /\ MonIdle
    /\ SandboxIdle
    /\ DbIdle
    /\ ApiIdle
    /\ AnalysisIdle

ConsNext ==
    \/ Receive
    \/ Classify
    \/ \E response \in CreateJobResponses : _handle_heavy_code(response)
    \/ \E response \in SandboxResponses : _handle_lightweight_code(response)
    \/ \E raises \in BOOLEAN : update_checkpoint(raises)
    \/ Finally
    \/ Restart

ConsSpec == ConsInit /\ [][ConsNext]_vars

RetryInit ==
    /\ rw_max_retries \in -1..RwMaxRetriesBound
    /\ RetryIdle
    /\ llm_client = "mock"
    /\ FlowIdle
    /\ job_manager = "present"
    /\ ConsIdle
    /\ JobIdle
    /\ km_ttl_seconds = 3600
    /\ max_job_retries = 3
    /\ MonIdle
    /\ SandboxIdle
    /\ DbIdle
    /\ ApiIdle
    /\ AnalysisIdle

FlowInit ==
    /\ llm_client \in {"mock", "real"}
    /\ FlowIdle
    /\ rw_max_retries = 3
    /\ RetryIdle
    /\ job_manager = "present"
    /\ ConsIdle
    /\ JobIdle
    /\ km_ttl_seconds = 3600
    /\ max_job_retries = 3
    /\ MonIdle
    /\ SandboxIdle
    /\ DbIdle
    /\ ApiIdle
    /\ AnalysisIdle

FlowNext ==
    \/ \E query \in Queries, max_retries \in 0..MaxRetriesBound :
            LET query_request == QueryRequest(query, max_retries) IN
            execute(query_request.query, query_request.max_retries)
    \/ FlowStep

FlowSpec == FlowInit /\ [][FlowNext]_vars

\* The scheduler of graph.invoke runs the next node until END.
FlowFairSpec == FlowSpec /\ WF_vars(FlowStep)

RetryNext ==
    \/ execute_with_retry
    \/ \E response \in ExecutorResponses : Iteration(response)
    \/ LoopExhausted

RetrySpec == RetryInit /\ [][RetryNext]_vars

OthersIdle ==
    /\ llm_client = "mock"
    /\ FlowIdle
    /\ rw_max_retries = 3
    /\ RetryIdle
    /\ job_manager = "present"
    /\ ConsIdle

JobInit ==
    /\ JobIdle
    /\ km_ttl_seconds \in TtlSeconds
    /\ max_job_retries = 3
    /\ MonIdle
    /\ SandboxIdle
    /\ DbIdle
    /\ ApiIdle
    /\ AnalysisIdle
    /\ OthersIdle

JobNext ==
    \/ \E request_id \in RequestIds, payload \in JobPayloads, response \in ApiResponses :
            create_job(JobCreationRequest(request_id, payload.code, payload.resource_limits), response)
    \/ \E response \in ApiResponses : delete_job(response)

JobSpec == JobInit /\ [][JobNext]_vars

MonInit ==
    /\ max_job_retries \in 1..MaxJobRetriesBound
    /\ MonIdle
    /\ SandboxIdle
    /\ DbIdle
    /\ ApiIdle
    /\ AnalysisIdle
    /\ JobIdle
    /\ km_ttl_seconds = 3600
    /\ OthersIdle

MonitorStep ==
    \/ \E job \in JobStatuses, elapsed \in 0..(mon_timeout + 1) :
            WatchEvent(job, elapsed)
    \/ \E elapsed \in 0..(mon_timeout + 1) : StreamEnds(elapsed)
    \/ \E elapsed \in 0..(mon_timeout + 1) : StreamRaises(elapsed)

MonNext ==
    \/ \E job_id \in MonitoredJobIds, timeout \in 1..MaxTimeout :
            monitor_job(job_id, timeout)
    \/ MonitorStep
    \/ \E response \in ApiResponses : cleanup_job(response)

SandboxInit ==
    /\ SandboxIdle
    /\ DbIdle
    /\ ApiIdle
    /\ AnalysisIdle
    /\ JobIdle
    /\ km_ttl_seconds = 3600
    /\ max_job_retries = 3
    /\ MonIdle
    /\ OthersIdle

SandboxNext ==
    \/ \E timeout \in Timeouts, mkdtemp_raises \in BOOLEAN :
            SecureExecutor_execute(timeout, mkdtemp_raises)
    \/ \E child \in Children, spawn_raises \in BOOLEAN :
            subprocess_run(child, spawn_raises)
    \/ \E rmtree_raises \in BOOLEAN : CleanupTempDir(rmtree_raises)

SandboxSpec == SandboxInit /\ [][SandboxNext]_vars

RepoInit == SandboxInit

RepoNext ==
    \E execution_result \in ResultsOfRuns, classification \in Classifications,
       resource_usage \in ResourceUsages, commit_raises \in BOOLEAN :
        save_execution(execution_result, MOCK_GENERATED, classification,
                       resource_usage, commit_raises)

RepoSpec == RepoInit /\ [][RepoNext]_vars

ApiInit == SandboxInit

ApiNext ==
    \/ \E request_id \in RequestIdsOfRuns, timeout \in ApiTimeouts :
            execute_snippet(request_id, timeout)
    \/ \E response \in SandboxResponses : ExecutorExecute(response)
    \/ \E db \in DbBehaviours : SaveToHistory(db)
    \/ PopActiveExecution
    \/ \E db \in DbBehaviours : get_job_history(db)
    \/ \E request_id \in RequestIdsOfRuns, db \in DbBehaviours :
            get_job_by_request_id(request_id, db)

ApiSpec == ApiInit /\ [][ApiNext]_vars

AnalysisInit ==
    /\ cv_allowlist \in
            {ImportValidationRule__init__(given, allowlist) :
                given \in BOOLEAN, allowlist \in AllowlistOverrides}
    /\ an_source = ""
    /\ an_verdict = "None"
    /\ an_complexity = "None"
    /\ SandboxIdle
    /\ DbIdle
    /\ ApiIdle
    /\ JobIdle
    /\ km_ttl_seconds = 3600
    /\ max_job_retries = 3
    /\ MonIdle
    /\ OthersIdle

AnalysisNext ==
    \/ \E code \in AnalysedSources : ValidateCall(code)
    \/ \E code \in AnalysedSources : ClassifyCall(code)

AnalysisSpec == AnalysisInit /\ [][AnalysisNext]_vars

MonSpec == MonInit /\ [][MonNext]_vars

\* The watch stream always delivers its next event or ends; nothing in the
\* program calls cleanup_job after monitor_job.
MonFairSpec == MonSpec /\ WF_vars(MonitorStep)

\* ------------------------------------------------------------------------
\* Properties of the orchestration flow
\* ------------------------------------------------------------------------
RECURSIVE Count(_, _)
Count(x, seq) ==
    IF seq = <<>> THEN 0
    ELSE (IF Head(seq) = x THEN 1 ELSE 0) + Count(x, Tail(seq))

Last(seq) == seq[Len(seq)]

\* C1: the execution router runs only right after a validation whose verdict
\* is is_valid = true, so a state with a classification has a valid verdict
\* for the code it holds.
C1_ClassifyOnlyValidated ==
    /\ node = "execution_router" =>
            /\ trace # <<>> /\ Last(trace) = "code_validator"
            /\ state.validation_result = "valid"
    /\ state.classification # "None" =>
            /\ state.validation_result = "valid"
            /\ validate(state.generated_code) = "valid"

C1_Witness ==
    /\ node = "END"
    /\ state.classification = "heavy"
    /\ state.validation_attempts > 0

\* C3: validation_attempts never exceeds max_retries and never decreases
\* while an execute call runs.
C3_RetryBound ==
    /\ [](state.validation_attempts <= state.max_retries)
    /\ [][node' # "input_parser" =>
            state'.validation_attempts >= state.validation_attempts]_vars

C3_Witness ==
    /\ node = "END"
    /\ state.max_retries = 2
    /\ state.validation_attempts = 2
    /\ state.validation_result = "invalid"

C7_Original ==
    node = "END" =>
        /\ state.status \in {"routed", "validation_failed_max_retries"}
        /\ (state.validation_result = "invalid"
             /\ state.validation_attempts >= state.max_retries) =>
                /\ state.status = "validation_failed_max_retries"
                /\ state.classification = "None"

\* C7 amended: execute returns status routed or validation_failed; when
\* validation still fails at the retry limit the returned status is
\* validation_failed with no classification, and it is process_query that
\* reports it as validation_failed_max_retries.
C7_TerminalStatus ==
    node = "END" =>
        /\ state.status \in {"routed", "validation_failed"}
        /\ (state.validation_result = "invalid"
             /\ state.validation_attempts >= state.max_retries) =>
                /\ state.status = "validation_failed"
                /\ state.classification = "None"
                /\ process_query(state) = "validation_failed_max_retries"
        /\ state.status = "routed" => process_query(state) = "routed"

C7_Witness ==
    /\ node = "END"
    /\ state.validation_result = "invalid"
    /\ state.max_retries = 2
    /\ state.validation_attempts = 2
    /\ state.generated_code = "import os; os.system('ls')"

\* C8: a correction adds exactly 1 to validation_attempts, and the node that
\* runs right after a generation or a correction that produced code is the
\* validator.
C8_CorrectionThenValidation ==
    [][/\ (node = "correction" /\ node' # "raised") =>
            /\ state'.validation_attempts = state.validation_attempts + 1
            /\ node' = "code_validator"
       /\ (node = "code_generation" /\ node' # "raised") =>
            node' = "code_validator"
       /\ (node' = "code_validator") =>
            /\ node \in {"code_generation", "correction"}
            /\ state'.status \in {"generated", "corrected"}]_vars

C8_Witness ==
    /\ node = "code_validator"
    /\ state.status = "corrected"
    /\ state.validation_attempts = 2
    /\ Last(trace) = "correction"

\* ------------------------------------------------------------------------
\* Properties of the retry wrapper
\* ------------------------------------------------------------------------
Raised(i) == calls[i].kind = "raise"

RaisedRetryable(i) == Raised(i) /\ is_retryable(calls[i].error)

ReturnedNonSuccess(i) ==
    calls[i].kind = "return" /\ calls[i].outcome.status \in {"timeout", "failed"}

ReportEntries(stderr) ==
    Cardinality({i \in 1..Len(stderr) :
                    \E k \in 1..Len(stderr) : stderr[i] = AttemptLine(k)})

\* C5: an outcome with status timeout or failed that the executor returns is
\* final: it is returned unchanged, no call and no sleep follows it, and when
\* it comes from the first call that is the only call and nothing was slept.
C5_NonSuccessOutcomeIsFinal ==
    \A i \in 1..Len(calls) :
        ReturnedNonSuccess(i) =>
            /\ i = Len(calls)
            /\ rw_pc = "done"
            /\ rw_result = calls[i].outcome
            /\ Len(sleeps) = i - 1
            /\ i = 1 => (Len(calls) = 1 /\ sleeps = <<>>)

C5_Witness ==
    /\ rw_pc = "done"
    /\ rw_max_retries = 3
    /\ Len(calls) = 1
    /\ calls[1].kind = "return"
    /\ calls[1].outcome.status = "timeout"
    /\ rw_result.exit_code = -1

\* C6: the executor is called at most max_retries + 1 times; when every call
\* raised a retryable exception the finished run made exactly
\* max_retries + 1 calls and returned a synthesized failed outcome with exit
\* code -1 whose report has one entry per attempt.
C6_RetryBudget ==
    /\ Len(calls) <= rw_max_retries + 1
    /\ (rw_pc = "done" /\ \A i \in 1..Len(calls) : RaisedRetryable(i)) =>
            /\ Len(calls) = rw_max_retries + 1
            /\ rw_result.status = "failed"
            /\ rw_result.exit_code = -1
            /\ rw_result.stdout = ""
            /\ ReportEntries(rw_result.stderr) = Len(calls)

C6_Witness ==
    /\ rw_pc = "done"
    /\ rw_max_retries = 2
    /\ Len(calls) = 3
    /\ \A i \in 1..Len(calls) : RaisedRetryable(i)
    /\ rw_result.status = "failed"

\* ------------------------------------------------------------------------
\* Properties of the Event Hub consumer
\* ------------------------------------------------------------------------
RaisingSteps == {"parse", "classify", "execute", "create_job", "no_job_manager"}

Acked(m) == \E a \in ack_log : a[1] = m

\* C2: when parsing, classification, the sandbox execution or the job
\* submission raised for the event being handled, update_checkpoint is not
\* called for it and no checkpoint of it is stored.
C2_NoCheckpointAfterRaise ==
    cur.step_raised \in RaisingSteps =>
        /\ cur.ckpt_calls = 0
        /\ checkpoint # cur.seq
        /\ ~Acked(cur.seq)

C2_Witness ==
    /\ ev_pc = "idle"
    /\ cur.seq = 2
    /\ cur.step_raised = "create_job"
    /\ last_handling[1] = "raised"
    /\ checkpoint = 0

\* C9: an event whose handling raised and that was never acknowledged
\* itself stays ahead of the stored checkpoint, so that a restarted receiver
\* gets it again.
C9_FailedStaysUnacknowledged ==
    \A m \in 1..Len(events) :
        (last_handling[m] = "raised" /\ ~Acked(m)) => checkpoint < m

\* C10: a checkpoint is stored only for an event whose dispatch ended in
\* success: never after a sandbox outcome with status failed or timeout.
C10_AckOnlyOnSuccess ==
    \A a \in ack_log : a[2] \notin {"failed", "timeout"}

Dispatched ==
    \/ cur.dispatch # ""
    \/ cur.step_raised \in {"execute", "create_job", "no_job_manager"}

MessageOf(seq) == _parse_message(events[seq]).request

\* C11 as stated: heavy code leads to exactly one create_job call with the
\* message's request id and code and to no sandbox execution, lightweight
\* code to exactly one sandbox execution with the message's code, request id
\* and timeout and to no job submission.
C11_Original ==
    Dispatched =>
        IF cur.complexity = "heavy"
        THEN /\ cur.job_calls = <<[request_id |-> MessageOf(cur.seq).request_id,
                                   code |-> MessageOf(cur.seq).code]>>
             /\ cur.exec_calls = <<>>
        ELSE /\ cur.exec_calls = <<MessageOf(cur.seq)>>
             /\ cur.job_calls = <<>>

\* C11 amended: as stated, except that heavy code leads to exactly one
\* create_job call only when a job manager is configured and to none when it
\* is missing; nothing is dispatched before the classification.
C11_ExclusiveDispatch ==
    /\ Dispatched =>
          IF cur.complexity = "heavy"
          THEN /\ cur.job_calls =
                    IF job_manager = "None" THEN <<>>
                    ELSE <<[request_id |-> MessageOf(cur.seq).request_id,
                            code |-> MessageOf(cur.seq).code]>>
               /\ cur.exec_calls = <<>>
          ELSE /\ cur.exec_calls = <<MessageOf(cur.seq)>>
               /\ cur.job_calls = <<>>
    /\ ~Dispatched => (cur.job_calls = <<>> /\ cur.exec_calls = <<>>)

C11_Witness ==
    /\ ev_pc = "idle"
    /\ cur.seq = 2
    /\ cur.complexity = "heavy"
    /\ cur.step_raised = "create_job"
    /\ Len(cur.job_calls) = 1
    /\ Acked(1)
    /\ <<1, "success">> \in ack_log

\* C12: events are handled one at a time in the order of the partition, and
\* the stored checkpoint never moves backwards.
C12_OrderedMonotonicAck ==
    [][/\ checkpoint' >= checkpoint
       /\ (cur'.seq # cur.seq) => (ev_pc = "idle" /\ cur'.seq = next_seq)
       /\ (ev_pc # "idle" /\ ev_pc' = "idle") => next_seq' = cur.seq + 1
       /\ (checkpoint' # checkpoint) => checkpoint' = cur.seq]_vars

C12_Witness ==
    /\ restarts = 1
    /\ checkpoint = 2
    /\ Acked(1)
    /\ Acked(2)
    /\ ev_pc = "idle"

\* C17: the j-th sleep of a run follows failed attempt j - 1 and lasts
\* min(2^(j-1), 60) seconds; there is one sleep per retry, none before the
\* first attempt and none after the last one.
C17_BackoffSchedule ==
    /\ \A j \in 1..Len(sleeps) :
            sleeps[j] = IF 2 ^ (j - 1) < 60 THEN 2 ^ (j - 1) ELSE 60
    /\ calls = <<>> => sleeps = <<>>
    /\ (rw_pc = "loop") => Len(sleeps) = Len(calls)
    /\ (rw_pc = "done" /\ calls # <<>>) => Len(sleeps) = Len(calls) - 1

C17_Witness ==
    /\ rw_pc = "done"
    /\ Len(calls) = 8
    /\ Len(sleeps) = 7
    /\ sleeps[6] = 32
    /\ sleeps[7] = 60

NonRetryableOrUnknown(i) ==
    /\ Raised(i)
    /\ calls[i].error.type \in {"TimeoutError", "MemoryError", "NetworkError",
                                "OSError", "RecursionError"}

\* C18: an exception of a non-retryable or unknown type ends the run: no
\* call and no sleep follows it and a failed outcome with exit code -1 is
\* returned; raised by the first call, that call is the only one and nothing
\* is slept.
C18_NonRetryableEndsRun ==
    \A i \in 1..Len(calls) :
        NonRetryableOrUnknown(i) =>
            /\ i = Len(calls)
            /\ rw_pc = "done"
            /\ rw_result.status = "failed"
            /\ rw_result.exit_code = -1
            /\ Len(sleeps) = i - 1
            /\ ReportEntries(rw_result.stderr) = i

C18_Witness ==
    /\ rw_pc = "done"
    /\ rw_max_retries = 3
    /\ Len(calls) = 1
    /\ calls[1].kind = "raise"
    /\ calls[1].error.type = "OSError"
    /\ sleeps = <<>>

KnownRetryable(i) ==
    /\ Raised(i)
    /\ calls[i].error.type \in {"ResourceExhaustedError", "RuntimeError"}

ReturnedSuccess(i) ==
    calls[i].kind = "return" /\ calls[i].outcome.status = "success"

\* C19: a retryable exception of one of the first max_retries calls is
\* followed by another call, and a success outcome is returned unchanged by
\* the call that produced it: k retryable failures and then a success make
\* exactly k + 1 calls.
C19_SuccessAfterRetries ==
    /\ \A i \in 1..Len(calls) :
            (KnownRetryable(i) /\ i <= rw_max_retries) =>
                (i < Len(calls) \/ rw_pc = "loop")
    /\ \A i \in 1..Len(calls) :
            ReturnedSuccess(i) =>
                /\ i = Len(calls)
                /\ rw_pc = "done"
                /\ rw_result = calls[i].outcome

C19_Witness ==
    /\ rw_pc = "done"
    /\ rw_max_retries = 2
    /\ Len(calls) = 3
    /\ KnownRetryable(1)
    /\ KnownRetryable(2)
    /\ ReturnedSuccess(3)
    /\ rw_result.status = "success"
    /\ rw_result.exit_code = 0

\* C20: when the LLM client raises in code generation or in correction, the
\* flow stops there: nothing is routed or classified, the caller gets the
\* error (HTTP 500) and no generated code, whatever an earlier step had
\* produced.
C20_LLMFailureSurfaced ==
    node = "raised" =>
        /\ Last(trace) \in {"code_generation", "correction"}
        /\ "execution_router" \notin {trace[i] : i \in 1..Len(trace)}
        /\ state.status # "routed"
        /\ state.classification = "None"
        /\ process_query_response(node, state).status_code = 500
        /\ process_query_response(node, state).generated_code = "<absent>"
        /\ process_query_response(node, state).status = "<absent>"

C20_Witness ==
    /\ node = "raised"
    /\ Last(trace) = "correction"
    /\ state.generated_code \in Programs \ {""}
    /\ state.validation_result = "invalid"
    /\ process_query_response(node, state).status_code = 500

\* ------------------------------------------------------------------------
\* Properties of the job monitor and of the job manager
\* ------------------------------------------------------------------------
\* C13: when monitor_job returns after its deadline has elapsed without
\* having seen a terminal job event (and without an API error), the status
\* it returns is timeout; this includes a watch stream that ends at the
\* deadline.
C13_TimeoutOnExpiry ==
    (/\ mon_pc = "returned"
     /\ mon_elapsed > mon_timeout
     /\ monitor_result.status \notin {"success", "failed", "error"}) =>
        monitor_result.status = "timeout"

ShowsFailure(job) ==
    \/ job.failed >= max_job_retries
    \/ \E i \in 1..Len(job.conditions) : job.conditions[i].type = "Failed"

\* C14: once the watch has delivered, within the deadline, an event of a
\* job that has not succeeded and that shows failed >= max_job_retries or a
\* condition of type Failed (of any reason), monitor_job has returned
\* status failed with a reason.
C14_FailedOnFailureEvent ==
    (/\ watch_event # NoJob
     /\ mon_elapsed <= mon_timeout
     /\ watch_event.succeeded = 0
     /\ ShowsFailure(watch_event)) =>
        /\ mon_pc = "returned"
        /\ monitor_result.status = "failed"
        /\ monitor_result.reason # "<absent>"

NonSuccessOutcome ==
    /\ mon_pc = "returned"
    /\ monitor_result.status \in {"failed", "timeout", "error"}

DeleteIssued ==
    \E i \in 1..Len(jh_delete_calls) :
        jh_delete_calls[i] = [name |-> mon_job_id,
                              propagation_policy |-> "Background"]

MatchesDnsLabel(id) ==
    /\ id # <<>>
    /\ id[1] \in ASCII_LOWER \cup ASCII_DIGITS
    /\ id[Len(id)] \in ASCII_LOWER \cup ASCII_DIGITS
    /\ \A i \in 1..Len(id) : id[i] \in ASCII_LOWER \cup ASCII_DIGITS \cup {"-"}

\* C16: the job id derived from any request id matches
\* [a-z0-9]([-a-z0-9]*[a-z0-9])? and is at most 63 characters long.
C16_JobIdValid ==
    km_pc # "idle" =>
        /\ MatchesDnsLabel(km_job_id)
        /\ Len(km_job_id) <= 63

\* ------------------------------------------------------------------------
\* Properties of the sandbox executor
\* ------------------------------------------------------------------------
RmtreeCallsOn(dir) ==
    {i \in 1..Len(rmtree_calls) : rmtree_calls[i].dir = dir}

\* C21: a directory made by execute exists while the child runs; when
\* execute ends, whether by returning an outcome of any status or by
\* raising, rmtree has been called exactly once on the directory of that
\* call, the directory is gone unless that rmtree call raised, and the
\* caller gets exactly the return or the exception of the try block.
C21_TempDirRemoved ==
    /\ (se_pc \in {"run", "finally"} /\ temp_dir # 0) =>
            (temp_dir \in disk /\ RmtreeCallsOn(temp_dir) = {})
    /\ se_pc = "done" =>
            /\ se_response = se_run
            /\ se_response.kind \in {"return", "raise"}
            /\ temp_dir # 0 =>
                    /\ Cardinality(RmtreeCallsOn(temp_dir)) = 1
                    /\ (temp_dir \in disk) = Last(rmtree_calls).raised
    /\ \A d \in disk \ {temp_dir} :
            \E i \in RmtreeCallsOn(d) : rmtree_calls[i].raised

C21_Witness ==
    /\ se_pc = "done"
    /\ se_count = 3
    /\ Len(rmtree_calls) = 3
    /\ rmtree_calls[1].raised
    /\ ~rmtree_calls[2].raised
    /\ disk = {1, 3}
    /\ se_response.kind = "raise"

OutcomeConsistent(o) ==
    /\ (o.status = "success") <=> (o.exit_code = 0)
    /\ (o.status = "timeout") => (o.exit_code = -1)

\* C22: every outcome the sandbox executor returned to the retry wrapper
\* and every outcome the wrapper returned has status success exactly when
\* its exit code is 0, and exit code -1 when its status is timeout.
C22_StatusMatchesExitCode ==
    /\ \A i \in 1..Len(calls) :
            calls[i].kind = "return" => OutcomeConsistent(calls[i].outcome)
    /\ rw_pc = "done" => OutcomeConsistent(rw_result)

C22_Witness ==
    /\ rw_pc = "done"
    /\ Len(calls) = 2
    /\ calls[1].kind = "raise"
    /\ calls[2].kind = "return"
    /\ calls[2].outcome.status = "timeout"
    /\ rw_result.status = "timeout"
    /\ rw_result.exit_code = -1

\* C24: once the request of a message is parsed and until its handling
\* ends, the logging context holds the message's request id; when handling
\* has ended, on whatever path, the context is cleared.
C24_CorrelationIdScoped ==
    /\ ev_pc \in {"classify", "dispatch", "update_checkpoint"} =>
            /\ request_id_ctx = events[cur.seq].request_id
            /\ request_id_ctx # ""
    /\ ev_pc = "finally" =>
            request_id_ctx = IF cur.step_raised = "parse" THEN ""
                             ELSE events[cur.seq].request_id
    /\ ev_pc = "idle" => request_id_ctx = ""

C24_Witness ==
    /\ ev_pc = "idle"
    /\ cur.seq = 2
    /\ cur.step_raised = "execute"
    /\ cur.request.request_id = "r1"
    /\ last_handling[1] = "completed"
    /\ request_id_ctx = ""

PANDAS_PROGRAM == "import pandas; result = pandas.__version__"

\* C29: a flow whose generated program is import pandas followed by
\* result = pandas.__version__ ends with validation passed, classification
\* heavy and status routed.
C29_HeavyImportRouted ==
    (node = "END" /\ state.generated_code = PANDAS_PROGRAM) =>
        /\ state.validation_result = "valid"
        /\ state.classification = "heavy"
        /\ state.status = "routed"

\* C30 as stated: any event with succeeded >= 1 received while monitoring
\* makes monitor_job return success.
C30_Original ==
    (watch_event # NoJob /\ watch_event.succeeded >= 1) =>
        (mon_pc = "returned" /\ monitor_result.status = "success")

\* C30: an event with succeeded >= 1 that is received before the monitoring
\* deadline has elapsed makes monitor_job return success, whatever else the
\* event reports; received after the deadline it makes monitor_job return
\* timeout.
C30_SuccessBeforeDeadline ==
    (watch_event # NoJob /\ watch_event.succeeded >= 1) =>
        /\ mon_pc = "returned"
        /\ monitor_result.status =
               IF mon_elapsed <= mon_timeout THEN "success" ELSE "timeout"

C30_Witness ==
    /\ mon_pc = "returned"
    /\ watch_event.succeeded = 1
    /\ watch_event.failed >= max_job_retries
    /\ Len(watch_event.conditions) = 2
    /\ mon_elapsed = mon_timeout
    /\ monitor_result.status = "success"

\* ------------------------------------------------------------------------
\* Properties of the executor service API and of the job history
\* ------------------------------------------------------------------------
\* C23: the request id of an execute_snippet request is in
\* active_executions from handler entry until the finally clause has run,
\* and is removed by it on every exit path; when no request is being
\* handled the map is empty.
C23_InFlightTracked ==
    /\ api_pc \in {"execute", "persist", "finally"} =>
            api_request.request_id \in active_executions
    /\ api_pc \in {"idle", "done"} => active_executions = {}

C23_Witness ==
    /\ api_pc = "done"
    /\ api_count = 3
    /\ api_request.handler = "execute_snippet"
    /\ api_result.kind = "raise"
    /\ api_response.status_code = 500
    /\ active_executions = {}

\* C25: when a request handler has ended, every database session it
\* obtained is closed.
C25_SessionsClosed ==
    api_pc \in {"idle", "finally", "done"} => open_sessions = {}

\* C26: when the executor returned an outcome, execute_snippet answers 200
\* with that outcome, whether saving it to the job history worked or
\* raised.
C26_PersistenceFailureInvisible ==
    (/\ api_request.handler = "execute_snippet"
     /\ api_pc \in {"finally", "done"}
     /\ api_result.kind = "return") =>
        /\ persist_outcome \in DbBehaviours
        /\ api_response = ApiResponse(200, api_result.outcome)

C26_Witness ==
    /\ api_pc = "done"
    /\ persist_outcome = "repository_raises"
    /\ api_result.kind = "return"
    /\ api_result.outcome.status = "failed"
    /\ api_response.status_code = 200
    /\ api_response.outcome.status = "failed"
    /\ job_history = <<>>

UniqueByRequestId(rows) ==
    \A i, j \in 1..Len(rows) :
        rows[i].request_id = rows[j].request_id => i = j

\* C27: after every save_execution the table has at most one row per
\* request id, and a save for a request id that has a row leaves the
\* number of rows as it is and puts the saved status and the time of the
\* save into that row.
C27_OneRecordPerRequest ==
    [][/\ UniqueByRequestId(job_history')
       /\ (/\ save_count' # save_count
           /\ saved_record'.kind = "saved"
           /\ FirstRow(job_history, saved_record'.request_id) # 0) =>
              LET k == FirstRow(job_history, saved_record'.request_id) IN
              /\ Len(job_history') = Len(job_history)
              /\ job_history'[k].id = job_history[k].id
              /\ job_history'[k].status = saved_record'.status
              /\ job_history'[k].timestamp = db_clock']_vars

C27_Witness ==
    /\ save_count = 3
    /\ saved_record.kind = "saved"
    /\ Len(job_history) = 1
    /\ job_history[1].timestamp = 3
    /\ job_history[1].status = "timeout"

\* C28: every row of the job history has a timestamp, a status, a
\* resource usage, a request id and a duration that are not NULL.
C28_RecordComplete ==
    \A i \in 1..Len(job_history) :
        /\ job_history[i].timestamp > 0
        /\ job_history[i].status \notin {NULL, ""}
        /\ job_history[i].resource_usage # NULL
        /\ job_history[i].request_id \notin {NULL, ""}
        /\ job_history[i].duration_ms >= 0

\* ------------------------------------------------------------------------
\* Properties of job monitoring and of the submitted workload
\* ------------------------------------------------------------------------
\* C31: no step of monitor_job, from its call to its return, issues a
\* delete_namespaced_job call, neither through JobErrorHandler nor through
\* KubernetesJobManager; in particular the step that returns because the
\* deadline has passed leaves the delete calls as they were.
C31_MonitorNeverDeletes ==
    [][(\/ mon_pc = "watching"
        \/ mon_pc' = "watching"
        \/ monitor_result' # monitor_result) =>
            /\ jh_delete_calls' = jh_delete_calls
            /\ km_delete_calls' = km_delete_calls]_vars

C31_Witness ==
    /\ mon_pc = "returned"
    /\ mon_elapsed > mon_timeout
    /\ monitor_result.status = "timeout"
    /\ jh_delete_calls = <<>>
    /\ km_delete_calls = <<>>

\* The int a sequence of at most four decimal digits stands for.
DigitValue(c) ==
    CASE c = "0" -> 0 [] c = "1" -> 1 [] c = "2" -> 2 [] c = "3" -> 3
      [] c = "4" -> 4 [] c = "5" -> 5 [] c = "6" -> 6 [] c = "7" -> 7
      [] c = "8" -> 8 [] c = "9" -> 9

DigitFromRight(digits, k) ==
    IF k > Len(digits) THEN 0 ELSE DigitValue(digits[Len(digits) + 1 - k])

DecimalValue(digits) ==
    DigitFromRight(digits, 1) + 10 * DigitFromRight(digits, 2)
        + 100 * DigitFromRight(digits, 3) + 1000 * DigitFromRight(digits, 4)

\* C32: the job create_job gives to create_namespaced_job has the CPU and
\* memory limits and requests of the request, the request's code, request
\* id and timeout in its environment, runAsNonRoot, a read-only root
\* filesystem, no privilege escalation, UID 1000, restart policy Never,
\* backoff limit 0, the manager's TTL and a pre-stop hook.
C32_JobSpecFidelity ==
    km_pc # "idle" =>
        /\ km_submitted.container.limits.cpu = km_request.resource_limits.cpu_limit
        /\ km_submitted.container.limits.memory = km_request.resource_limits.memory_limit
        /\ km_submitted.container.requests.cpu = km_request.resource_limits.cpu_request
        /\ km_submitted.container.requests.memory = km_request.resource_limits.memory_request
        /\ km_submitted.container.env.CODE = km_request.code
        /\ km_submitted.container.env.REQUEST_ID = km_request.request_id
        /\ Len(km_submitted.container.env.TIMEOUT) \in 1..4
        /\ DecimalValue(km_submitted.container.env.TIMEOUT) =
                km_request.resource_limits.timeout_seconds
        /\ km_submitted.container.security_context.run_as_non_root
        /\ km_submitted.container.security_context.read_only_root_filesystem
        /\ ~km_submitted.container.security_context.allow_privilege_escalation
        /\ km_submitted.container.security_context.run_as_user = 1000
        /\ km_submitted.restart_policy = "Never"
        /\ km_submitted.backoff_limit = 0
        /\ km_submitted.ttl_seconds_after_finished = km_ttl_seconds
        /\ km_submitted.container.pre_stop # <<>>

C32_Witness ==
    /\ km_pc = "created"
    /\ km_ttl_seconds = 120
    /\ km_request.resource_limits.cpu_limit = "500m"
    /\ km_submitted.container.limits.cpu = "500m"
    /\ km_submitted.container.env.TIMEOUT = <<"4", "5">>
    /\ km_submitted.ttl_seconds_after_finished = 120
    /\ km_submitted.name = km_job_id

\* C37: the job id create_job derived for a request id is the job id of
\* no other request id.
C37_JobIdUnique ==
    km_pc # "idle" =>
        \A request_id \in RequestIds :
            _generate_job_id(request_id) = km_job_id =>
                request_id = km_request_id

\* ------------------------------------------------------------------------
\* Properties of the validator and of the classifier
\* ------------------------------------------------------------------------
\* C33: validate answers is_valid = false for every source that parses and
\* imports a module of PROHIBITED_MODULES, whatever allowlist the
\* validator was constructed with, an allowlist holding that module
\* included.
C33_ProhibitionWins ==
    (/\ an_verdict # "None"
     /\ AST(an_source).parses
     /\ AST(an_source).imports \cap PROHIBITED_MODULES # {}) =>
        an_verdict = "invalid"

C33_Witness ==
    /\ an_source = "import pickle; result = pickle.dumps(1)"
    /\ "pickle" \in cv_allowlist
    /\ cv_allowlist # DEFAULT_ALLOWLIST
    /\ an_verdict = "invalid"

\* The modules X of the statements "from X import *" of a source.
WildcardImports(code) ==
    CASE code = "from math import *; result = pi" -> {"math"}
      [] code = "from os import *; result = getcwd()" -> {"os"}
      [] OTHER -> {}

\* C34: validate answers is_valid = false for every source with a
\* wildcard import, whatever the module.
C34_WildcardRejected ==
    (an_verdict # "None" /\ WildcardImports(an_source) # {}) =>
        an_verdict = "invalid"

\* C35: classify returns heavy exactly for the sources that parse and have
\* a heavy import, a file-I/O construct or loops nested 3 deep, and
\* lightweight for every other source, the ones that do not parse
\* included.
C35_ClassifyTotal ==
    an_complexity # "None" =>
        LET tree == AST(an_source) IN
        an_complexity =
            IF /\ tree.parses
               /\ \/ tree.imports \cap HEAVY_IMPORTS # {}
                  \/ tree.name_calls \cap FILE_OPERATIONS # {}
                  \/ \E a \in tree.attr_calls : a[2] \in FILE_OPERATIONS
                  \/ tree.imports \cap FILE_MODULES # {}
                  \/ tree.loop_depth >= 3
            THEN "heavy" ELSE "lightweight"

\* ------------------------------------------------------------------------
\* Properties of the Event Hub consumer's handler
\* ------------------------------------------------------------------------
\* The codes the handler of the current event gave to the sandbox executor
\* or to the job manager.
DispatchedCodes ==
    {cur.exec_calls[i].code : i \in 1..Len(cur.exec_calls)}
        \cup {cur.job_calls[i].code : i \in 1..Len(cur.job_calls)}

\* C36: every code the consumer gives to the sandbox executor or submits
\* as a job is a code the validator accepts.
C36_OnlyValidatedDispatched ==
    \A code \in DispatchedCodes : validate(code) = "valid"

\* C39: an exception of _parse_message, classify, the dispatch or
\* update_checkpoint never leaves _on_event: the handler goes to its
\* finally clause and returns, and the client delivers the next event.
C39_HandlerSwallows ==
    [][/\ (cur'.step_raised # "" /\ cur'.step_raised # cur.step_raised) =>
              /\ cur'.step_raised \in RaisingSteps \cup {"update_checkpoint"}
              /\ ev_pc' = "finally"
       /\ (ev_pc = "finally" /\ ev_pc' # "finally") =>
              /\ ev_pc' = "idle"
              /\ next_seq' = cur.seq + 1
              /\ last_handling'[cur.seq] =
                     IF cur.step_raised # "" THEN "raised" ELSE "completed"]_vars

C39_Witness ==
    /\ ev_pc = "idle"
    /\ cur.seq = 2
    /\ last_handling[1] = "raised"
    /\ last_handling[2] = "completed"
    /\ checkpoint = 2
    /\ restarts = 0

\* ------------------------------------------------------------------------
\* Properties of the query endpoint
\* ------------------------------------------------------------------------
\* C40: the orchestration flow is started only for requests whose query is
\* not empty and whose max_retries is in 1..10.
C40_FlowOnlyForValidRequest ==
    node # "idle" =>
        /\ state.query # ""
        /\ state.max_retries \in 1..10

====
